---- MODULE Spec2Model ----
(***************************************************************************)
(* EduPal: the Lambda backend (src/EduPal.py) and the Streamlit client     *)
(* (src/app.py): its response cleaner, its quiz parser, call_backend and   *)
(* the buttons that use them.                                              *)
(*                                                                         *)
(* A Python str is modelled as a sequence of one-character strings, so     *)
(* that slicing, strip(), lower(), startswith() and the regular            *)
(* expressions act on characters as they do in the code.  A character     *)
(* that cannot be written in a string is named by its code point           *)
(* ("U+2019"); the alphabet is printable ASCII, the ASCII control          *)
(* characters and the other characters named in this module.               *)
(* A JSON value carried by a request is a tagged record (PyStr, PyInt,     *)
(* PyNone); a dict is a function from a set of keys.                       *)
(*                                                                         *)
(* A call that may raise returns a record: raised, exc (the text of        *)
(* str(e)), val (the value returned) and calls (the calls made to the      *)
(* external collaborators, in order).  What the collaborators answer is    *)
(* not decided by the program: it is an input (modelOutcome, pdfOutcome).  *)
(* json.loads / json.dumps are the standard library's: a JSON document is  *)
(* represented by the value it encodes, or by the error its decoding       *)
(* raises.                                                                 *)
(***************************************************************************)
EXTENDS Integers, Sequences, FiniteSets, TLC

VARIABLES
    pc,            \* "idle" | "responded" | "cleaned" | "parsed", and in the
                   \* client "upload" | "summary" | "answer" | "test" | "quiz" |
                   \* "feedback"
    event,         \* the Lambda event being handled
    modelOutcome,  \* what bedrock.invoke_model answers if it is called
    pdfOutcome,    \* what b64decode + PdfReader answer if they are called
    envelope,      \* what lambda_handler returned
    propagated,    \* TRUE iff process_request raised instead of returning
    calls,         \* the collaborator calls made for this request
    cleanIn,       \* the text given to ResponseCleaner.clean_response
    cleanOut,      \* the text it returned
    quizIn,        \* the text UIManager._parse_quiz_questions split in lines
    quizOut,       \* the dict it returned, as a sequence of <<key, value>>
    quizArg,       \* the value it was called with
    quizRaised,    \* TRUE iff it raised instead of returning
    quizWarning,   \* the text it gave to st.warning, <<>> if none
    session,       \* st.session_state: extracted_text, current_text, quiz,
                   \* quiz_questions (the empty text where the key is not set)
    http,          \* the request call_backend posted and what became of it
    page           \* what the last button press put on the page

vars == <<pc, event, modelOutcome, pdfOutcome, envelope, propagated, calls,
          cleanIn, cleanOut, quizIn, quizOut, quizArg, quizRaised, quizWarning,
          session, http, page>>

(***************************************************************************)
(* Characters and Python's str methods                                     *)
(***************************************************************************)
\* the character U+2019 (right single quotation mark)
RSQUO == "U+2019"

LowerAlpha ==
    <<"a", "b", "c", "d", "e", "f", "g", "h", "i", "j", "k", "l", "m",
      "n", "o", "p", "q", "r", "s", "t", "u", "v", "w", "x", "y", "z">>

UpperAlpha ==
    <<"A", "B", "C", "D", "E", "F", "G", "H", "I", "J", "K", "L", "M",
      "N", "O", "P", "Q", "R", "S", "T", "U", "V", "W", "X", "Y", "Z">>

DigitChars == <<"0", "1", "2", "3", "4", "5", "6", "7", "8", "9">>

islower(c) == \E i \in DOMAIN LowerAlpha : LowerAlpha[i] = c

isupper(c) == \E i \in DOMAIN UpperAlpha : UpperAlpha[i] = c

lower_char(c) ==
    IF isupper(c)
    THEN LowerAlpha[CHOOSE i \in DOMAIN UpperAlpha : UpperAlpha[i] = c]
    ELSE c

upper_char(c) ==
    IF islower(c)
    THEN UpperAlpha[CHOOSE i \in DOMAIN LowerAlpha : LowerAlpha[i] = c]
    ELSE c

\* str.lower()
lower(s) == [i \in 1..Len(s) |-> lower_char(s[i])]

\* str.isspace() of one character; also the class \s of the re module and
\* what str.strip() takes off: the ASCII whitespace (\t \n \v \f \r, the
\* separators 1C..1F, the space) and Unicode's other whitespace
isspace(c) ==
    c \in {" ", "\t", "\n", "\f", "\r", "U+000B", "U+001C", "U+001D", "U+001E",
           "U+001F", "U+0085", "U+00A0", "U+1680", "U+2000", "U+2001", "U+2002",
           "U+2003", "U+2004", "U+2005", "U+2006", "U+2007", "U+2008", "U+2009",
           "U+200A", "U+2028", "U+2029", "U+202F", "U+205F", "U+3000"}

\* not s.strip()
IsBlank(s) == \A i \in 1..Len(s) : isspace(s[i])

\* str.strip()
strip(s) ==
    IF IsBlank(s) THEN <<>>
    ELSE LET a == CHOOSE i \in 1..Len(s) :
                    ~isspace(s[i]) /\ \A j \in 1..(i - 1) : isspace(s[j])
             b == CHOOSE i \in 1..Len(s) :
                    ~isspace(s[i]) /\ \A j \in (i + 1)..Len(s) : isspace(s[j])
         IN  SubSeq(s, a, b)

\* str.startswith(prefix)
startswith(s, prefix) ==
    /\ Len(prefix) <= Len(s)
    /\ \A i \in 1..Len(prefix) : s[i] = prefix[i]

\* needle in haystack
Contains(haystack, needle) ==
    \E i \in 0..(Len(haystack) - Len(needle)) :
        \A k \in 1..Len(needle) : haystack[i + k] = needle[k]

\* str(n) of an int
RECURSIVE str_int(_)
str_int(n) ==
    IF n < 0 THEN <<"-">> \o str_int(-n)
    ELSE IF n < 10 THEN <<DigitChars[n + 1]>>
    ELSE str_int(n \div 10) \o <<DigitChars[(n % 10) + 1]>>

(***************************************************************************)
(* JSON values of a request, and dicts                                     *)
(***************************************************************************)
PyStr(s) == [t |-> "str", s |-> s, n |-> 0]

PyInt(n) == [t |-> "int", s |-> <<>>, n |-> n]

PyNone == [t |-> "NoneType", s |-> <<>>, n |-> 0]

(***************************************************************************)
(* Text the code holds: names, messages, prompt templates, and the texts  *)
(* of the Python errors the code can meet                                  *)
(***************************************************************************)
S_process_pdf == <<"p", "r", "o", "c", "e", "s", "s", "_", "p", "d", "f">>

S_qa == <<"q", "a">>

S_summarize == <<"s", "u", "m", "m", "a", "r", "i", "z", "e">>

S_quiz == <<"q", "u", "i", "z">>

S_feedback == <<"f", "e", "e", "d", "b", "a", "c", "k">>

MsgNoPdfData ==
    <<"N", "o", " ", "P", "D", "F", " ", "d", "a", "t", "a", " ", "p", "r", "o", "v",
      "i", "d", "e", "d">>

MsgNoText ==
    <<"N", "o", " ", "t", "e", "x", "t", " ", "c", "o", "n", "t", "e", "n", "t", " ",
      "p", "r", "o", "v", "i", "d", "e", "d">>

MsgNoQuestion ==
    <<"N", "o", " ", "q", "u", "e", "s", "t", "i", "o", "n", " ", "p", "r", "o", "v",
      "i", "d", "e", "d">>

MsgMissingFeedback ==
    <<"M", "i", "s", "s", "i", "n", "g", " ", "r", "e", "q", "u", "i", "r", "e", "d",
      " ", "f", "i", "e", "l", "d", "s", " ", "f", "o", "r", " ", "f", "e", "e", "d",
      "b", "a", "c", "k", ":", " ", "q", "u", "e", "s", "t", "i", "o", "n", ",", " ",
      "u", "s", "e", "r", "_", "a", "n", "s", "w", "e", "r", ",", " ", "c", "o", "r",
      "r", "e", "c", "t", "_", "a", "n", "s", "w", "e", "r">>

MsgInvalidActionHead ==
    <<"I", "n", "v", "a", "l", "i", "d", " ", "a", "c", "t", "i", "o", "n", ":", " ">>

\* a variant of the list that predates the feedback action
MsgInvalidActionTailStale ==
    <<".", " ", "S", "u", "p", "p", "o", "r", "t", "e", "d", " ", "a", "c", "t", "i",
      "o", "n", "s", ":", " ", "p", "r", "o", "c", "e", "s", "s", "_", "p", "d", "f",
      ",", " ", "q", "a", ",", " ", "s", "u", "m", "m", "a", "r", "i", "z", "e", ",",
      " ", "q", "u", "i", "z">>

MsgInvalidActionTail ==
    <<".", " ", "S", "u", "p", "p", "o", "r", "t", "e", "d", " ", "a", "c", "t", "i",
      "o", "n", "s", ":", " ", "p", "r", "o", "c", "e", "s", "s", "_", "p", "d", "f",
      ",", " ", "q", "a", ",", " ", "s", "u", "m", "m", "a", "r", "i", "z", "e", ",",
      " ", "q", "u", "i", "z", ",", " ", "f", "e", "e", "d", "b", "a", "c", "k">>

MsgInternalHead ==
    <<"I", "n", "t", "e", "r", "n", "a", "l", " ", "s", "e", "r", "v", "e", "r", " ",
      "e", "r", "r", "o", "r", ":", " ">>

MsgUnexpectedHead ==
    <<"U", "n", "e", "x", "p", "e", "c", "t", "e", "d", " ", "e", "r", "r", "o", "r",
      ":", " ">>

MsgPdfFailedHead ==
    <<"P", "D", "F", " ", "p", "r", "o", "c", "e", "s", "s", "i", "n", "g", " ", "f",
      "a", "i", "l", "e", "d", ":", " ">>

MsgModelFailedHead ==
    <<"A", "I", " ", "m", "o", "d", "e", "l", " ", "i", "n", "v", "o", "c", "a", "t",
      "i", "o", "n", " ", "f", "a", "i", "l", "e", "d", ":", " ">>

MsgEmptyPdf ==
    <<"E", "m", "p", "t", "y", " ", "P", "D", "F", " ", "d", "a", "t", "a", " ", "p",
      "r", "o", "v", "i", "d", "e", "d">>

MsgNoExtractable ==
    <<"N", "o", " ", "e", "x", "t", "r", "a", "c", "t", "a", "b", "l", "e", " ", "t",
      "e", "x", "t", " ", "f", "o", "u", "n", "d", " ", "i", "n", " ", "P", "D", "F">>

S_Page == <<"P", "a", "g", "e", " ">>

S_ColonNl == <<":", "\n">>

S_NlNl == <<"\n", "\n">>

Timestamp == <<"\"", "t", "y", "p", "i", "n", "g", ".", "A", "n", "y", "\"">>

QAPromptHead ==
    <<"A", "n", "s", "w", "e", "r", " ", "t", "h", "i", "s", " ", "q", "u", "e", "s",
      "t", "i", "o", "n", " ", "b", "a", "s", "e", "d", " ", "o", "n", " ", "t", "h",
      "e", " ", "t", "e", "x", "t", " ", "b", "e", "l", "o", "w", ".", "\n", "T", "e",
      "x", "t", ":", " ">>

QAPromptMid == <<"\n", "Q", "u", "e", "s", "t", "i", "o", "n", ":", " ">>

QAPromptTail ==
    <<"\n", "P", "r", "o", "v", "i", "d", "e", " ", "a", " ", "c", "o", "n", "c", "i",
      "s", "e", " ", "a", "n", "d", " ", "a", "c", "c", "u", "r", "a", "t", "e", " ",
      "a", "n", "s", "w", "e", "r", ".">>

SummaryPromptHead ==
    <<"C", "r", "e", "a", "t", "e", " ", "a", " ", "w", "e", "l", "l", "-", "s", "t",
      "r", "u", "c", "t", "u", "r", "e", "d", " ", "b", "u", "l", "l", "e", "t", " ",
      "p", "o", "i", "n", "t", " ", "s", "u", "m", "m", "a", "r", "y", " ", "o", "f",
      " ", "t", "h", "i", "s", " ", "t", "e", "x", "t", ":", "\n">>

SummaryPromptTail ==
    <<"\n", "F", "o", "c", "u", "s", " ", "o", "n", " ", "k", "e", "y", " ", "c", "o",
      "n", "c", "e", "p", "t", "s", " ", "a", "n", "d", " ", "m", "a", "i", "n", " ",
      "i", "d", "e", "a", "s", ".">>

QuizPromptHead ==
    <<"C", "r", "e", "a", "t", "e", " ", "3", " ", "m", "u", "l", "t", "i", "p", "l",
      "e", "-", "c", "h", "o", "i", "c", "e", " ", "q", "u", "e", "s", "t", "i", "o",
      "n", "s", " ", "a", "b", "o", "u", "t", " ", "t", "h", "i", "s", " ", "t", "e",
      "x", "t", ":", "\n", " ", " ", " ", " ", " ", " ", " ", " ">>

QuizPromptTail ==
    <<"\n", " ", " ", " ", " ", " ", " ", " ", " ", "F", "o", "r", "m", "a", "t", " ",
      "e", "a", "c", "h", " ", "q", "u", "e", "s", "t", "i", "o", "n", " ", "E", "X",
      "A", "C", "T", "L", "Y", " ", "l", "i", "k", "e", " ", "t", "h", "i", "s", ":",
      "\n", " ", " ", " ", " ", " ", " ", " ", " ", "Q", "1", ".", " ", "[", "Q", "u",
      "e", "s", "t", "i", "o", "n", " ", "t", "e", "x", "t", "]", "\n", " ", " ", " ",
      " ", " ", " ", " ", " ", "A", ")", " ", "[", "O", "p", "t", "i", "o", "n", " ",
      "A", "]", "\n", " ", " ", " ", " ", " ", " ", " ", " ", "B", ")", " ", "[", "O",
      "p", "t", "i", "o", "n", " ", "B", "]", "\n", " ", " ", " ", " ", " ", " ", " ",
      " ", "C", ")", " ", "[", "O", "p", "t", "i", "o", "n", " ", "C", "]", "\n", " ",
      " ", " ", " ", " ", " ", " ", " ", "D", ")", " ", "[", "O", "p", "t", "i", "o",
      "n", " ", "D", "]", "\n", "\n", " ", " ", " ", " ", " ", " ", " ", " ", "Q", "2",
      ".", " ", "[", "Q", "u", "e", "s", "t", "i", "o", "n", " ", "t", "e", "x", "t",
      "]", "\n", " ", " ", " ", " ", " ", " ", " ", " ", "A", ")", " ", "[", "O", "p",
      "t", "i", "o", "n", " ", "A", "]", "\n", " ", " ", " ", " ", " ", " ", " ", " ",
      "B", ")", " ", "[", "O", "p", "t", "i", "o", "n", " ", "B", "]", "\n", " ", " ",
      " ", " ", " ", " ", " ", " ", "C", ")", " ", "[", "O", "p", "t", "i", "o", "n",
      " ", "C", "]", "\n", " ", " ", " ", " ", " ", " ", " ", " ", "D", ")", " ", "[",
      "O", "p", "t", "i", "o", "n", " ", "D", "]", "\n", "\n", " ", " ", " ", " ", " ",
      " ", " ", " ", "Q", "3", ".", " ", "[", "Q", "u", "e", "s", "t", "i", "o", "n",
      " ", "t", "e", "x", "t", "]", "\n", " ", " ", " ", " ", " ", " ", " ", " ", "A",
      ")", " ", "[", "O", "p", "t", "i", "o", "n", " ", "A", "]", "\n", " ", " ", " ",
      " ", " ", " ", " ", " ", "B", ")", " ", "[", "O", "p", "t", "i", "o", "n", " ",
      "B", "]", "\n", " ", " ", " ", " ", " ", " ", " ", " ", "C", ")", " ", "[", "O",
      "p", "t", "i", "o", "n", " ", "C", "]", "\n", " ", " ", " ", " ", " ", " ", " ",
      " ", "D", ")", " ", "[", "O", "p", "t", "i", "o", "n", " ", "D", "]", "\n", "\n",
      " ", " ", " ", " ", " ", " ", " ", " ", "E", "n", "s", "u", "r", "e", " ", "e",
      "a", "c", "h", " ", "q", "u", "e", "s", "t", "i", "o", "n", " ", "s", "t", "a",
      "r", "t", "s", " ", "w", "i", "t", "h", " ", "Q", "1", ".", ",", " ", "Q", "2",
      ".", ",", " ", "Q", "3", ".", " ", "a", "n", "d", " ", "o", "p", "t", "i", "o",
      "n", "s", " ", "u", "s", "e", " ", "A", ")", ",", " ", "B", ")", ",", " ", "C",
      ")", ",", " ", "D", ")", " ", "f", "o", "r", "m", "a", "t", ".">>

FeedbackPromptHead ==
    <<"P", "l", "e", "a", "s", "e", " ", "p", "r", "o", "v", "i", "d", "e", " ", "f",
      "e", "e", "d", "b", "a", "c", "k", " ", "o", "n", " ", "t", "h", "i", "s", " ",
      "q", "u", "i", "z", " ", "a", "n", "s", "w", "e", "r", ":", "\n", "\n", " ", " ",
      " ", " ", "Q", "u", "e", "s", "t", "i", "o", "n", ":", " ">>

FeedbackPromptMid1 ==
    <<"\n", "\n", " ", " ", " ", " ", "U", "s", "e", "r", "'", "s", " ", "A", "n", "s",
      "w", "e", "r", ":", " ">>

FeedbackPromptMid2 ==
    <<"\n", " ", " ", " ", " ", "E", "x", "p", "e", "c", "t", "e", "d", " ", "C", "o",
      "r", "r", "e", "c", "t", " ", "A", "n", "s", "w", "e", "r", ":", " ">>

FeedbackPromptTail ==
    <<"\n", "\n", " ", " ", " ", " ", "P", "r", "o", "v", "i", "d", "e", " ", "c", "o",
      "n", "s", "t", "r", "u", "c", "t", "i", "v", "e", " ", "f", "e", "e", "d", "b",
      "a", "c", "k", " ", "t", "h", "a", "t", ":", "\n", " ", " ", " ", " ", "1", ".",
      " ", "F", "i", "r", "s", "t", " ", "s", "t", "a", "t", "e", "s", " ", "w", "h",
      "e", "t", "h", "e", "r", " ", "t", "h", "e", " ", "u", "s", "e", "r", "'", "s",
      " ", "a", "n", "s", "w", "e", "r", " ", "m", "a", "t", "c", "h", "e", "s", " ",
      "t", "h", "e", " ", "e", "x", "p", "e", "c", "t", "e", "d", " ", "a", "n", "s",
      "w", "e", "r", "\n", " ", " ", " ", " ", "2", ".", " ", "E", "x", "p", "l", "a",
      "i", "n", "s", " ", "w", "h", "y", " ", "t", "h", "e", " ", "e", "x", "p", "e",
      "c", "t", "e", "d", " ", "a", "n", "s", "w", "e", "r", " ", "i", "s", " ", "c",
      "o", "r", "r", "e", "c", "t", "\n", " ", " ", " ", " ", "3", ".", " ", "P", "r",
      "o", "v", "i", "d", "e", "s", " ", "e", "d", "u", "c", "a", "t", "i", "o", "n",
      "a", "l", " ", "i", "n", "s", "i", "g", "h", "t", "s", " ", "a", "b", "o", "u",
      "t", " ", "t", "h", "e", " ", "t", "o", "p", "i", "c", "\n", " ", " ", " ", " ",
      "4", ".", " ", "I", "s", " ", "e", "n", "c", "o", "u", "r", "a", "g", "i", "n",
      "g", " ", "a", "n", "d", " ", "h", "e", "l", "p", "f", "u", "l", " ", "f", "o",
      "r", " ", "l", "e", "a", "r", "n", "i", "n", "g", "\n", " ", " ", " ", " ", "K",
      "e", "e", "p", " ", "t", "h", "e", " ", "f", "e", "e", "d", "b", "a", "c", "k",
      " ", "c", "o", "n", "c", "i", "s", "e", " ", "b", "u", "t", " ", "i", "n", "f",
      "o", "r", "m", "a", "t", "i", "v", "e", ".">>

S_int == <<"i", "n", "t">>

S_NoneType == <<"N", "o", "n", "e", "T", "y", "p", "e">>

S_None == <<"N", "o", "n", "e">>

S_list == <<"l", "i", "s", "t">>

S_AIResponseHandler ==
    <<"A", "I", "R", "e", "s", "p", "o", "n", "s", "e", "H", "a", "n", "d", "l", "e",
      "r">>

S_lower == <<"l", "o", "w", "e", "r">>

S_get == <<"g", "e", "t">>

S_provide_feedback ==
    <<"p", "r", "o", "v", "i", "d", "e", "_", "f", "e", "e", "d", "b", "a", "c", "k">>

ErrQuote == <<"'">>

ErrNoAttrMid ==
    <<"'", " ", "o", "b", "j", "e", "c", "t", " ", "h", "a", "s", " ", "n", "o", " ",
      "a", "t", "t", "r", "i", "b", "u", "t", "e", " ", "'">>

ErrNotSubscriptable ==
    <<"'", " ", "o", "b", "j", "e", "c", "t", " ", "i", "s", " ", "n", "o", "t", " ",
      "s", "u", "b", "s", "c", "r", "i", "p", "t", "a", "b", "l", "e">>

ErrB64Head ==
    <<"a", "r", "g", "u", "m", "e", "n", "t", " ", "s", "h", "o", "u", "l", "d", " ",
      "b", "e", " ", "a", " ", "b", "y", "t", "e", "s", "-", "l", "i", "k", "e", " ",
      "o", "b", "j", "e", "c", "t", " ", "o", "r", " ", "A", "S", "C", "I", "I", " ",
      "s", "t", "r", "i", "n", "g", ",", " ", "n", "o", "t", " ", "'">>

ErrKeyChoices == <<"'", "c", "h", "o", "i", "c", "e", "s", "'">>

ErrIndexRange ==
    <<"l", "i", "s", "t", " ", "i", "n", "d", "e", "x", " ", "o", "u", "t", " ", "o",
      "f", " ", "r", "a", "n", "g", "e">>

ErrNotIterableHead ==
    <<"a", "r", "g", "u", "m", "e", "n", "t", " ", "o", "f", " ", "t", "y", "p", "e",
      " ", "'">>

ErrNotIterableTail ==
    <<"'", " ", "i", "s", " ", "n", "o", "t", " ", "i", "t", "e", "r", "a", "b", "l",
      "e">>

\* type(v).__name__
TypeName(v) ==
    CASE v.t = "str" -> <<"s", "t", "r">>
      [] v.t = "int" -> S_int
      [] v.t = "NoneType" -> S_NoneType

\* bool(v)
truthy(v) ==
    CASE v.t = "str" -> v.s # <<>>
      [] v.t = "int" -> v.n # 0
      [] v.t = "NoneType" -> FALSE

\* str(v), as an f-string formats a value
str(v) ==
    CASE v.t = "str" -> v.s
      [] v.t = "int" -> str_int(v.n)
      [] v.t = "NoneType" -> S_None

\* dict.get(key, default)
get(d, key, default) == IF key \in DOMAIN d THEN d[key] ELSE default

\* return v / raise Exception(msg), with the collaborator calls made so far
Return(v, made) == [raised |-> FALSE, exc |-> <<>>, val |-> v, calls |-> made]

Raise(msg, made) == [raised |-> TRUE, exc |-> msg, val |-> <<>>, calls |-> made]

\* AttributeError: '<type>' object has no attribute '<attr>'
AttributeError(typename, attr) ==
    ErrQuote \o typename \o ErrNoAttrMid \o attr \o ErrQuote

(***************************************************************************)
(* PDFProcessor                                                            *)
(***************************************************************************)
PdfCall(pdf_base64) ==
    [target |-> "pdf_processor", data |-> pdf_base64, messages |-> <<>>,
     max_tokens |-> 0]

\* the loop over pdf_reader.pages, from page number n on
RECURSIVE PageTexts(_, _)
PageTexts(pages, n) ==
    IF n > Len(pages) THEN <<>>
    ELSE (IF pages[n] # <<>>
          THEN S_Page \o str_int(n) \o S_ColonNl \o pages[n] \o S_NlNl
          ELSE <<>>) \o PageTexts(pages, n + 1)

\* the try block of extract_text_from_pdf
extract_text_try(pdf_base64, po) ==
    IF ~truthy(pdf_base64) THEN Raise(MsgEmptyPdf, <<PdfCall(pdf_base64)>>)
    ELSE IF pdf_base64.t # "str"
    THEN Raise(ErrB64Head \o TypeName(pdf_base64) \o ErrQuote,
               <<PdfCall(pdf_base64)>>)
    ELSE IF po.kind = "error" THEN Raise(po.desc, <<PdfCall(pdf_base64)>>)
    ELSE LET text == PageTexts(po.pages, 1)
         IN  IF IsBlank(text)
             THEN Raise(MsgNoExtractable, <<PdfCall(pdf_base64)>>)
             ELSE Return(strip(text), <<PdfCall(pdf_base64)>>)

extract_text_from_pdf(pdf_base64, po) ==
    LET r == extract_text_try(pdf_base64, po)
    IN  IF r.raised THEN Raise(MsgPdfFailedHead \o r.exc, r.calls) ELSE r

(***************************************************************************)
(* AIResponseHandler                                                       *)
(***************************************************************************)
BedrockCall(messages, max_tokens) ==
    [target |-> "bedrock", data |-> PyNone, messages |-> messages,
     max_tokens |-> max_tokens]

UserMessage(content) == <<[role |-> "user", content |-> content]>>

\* the try block of _invoke_model
invoke_model_try(messages, max_tokens, mo) ==
    LET made == <<BedrockCall(messages, max_tokens)>>
    IN  CASE mo.kind = "transport" -> Raise(mo.desc, made)
          [] mo.kind = "badjson" -> Raise(mo.desc, made)
          [] mo.kind = "nochoices" -> Raise(ErrKeyChoices, made)
          [] mo.kind = "emptychoices" -> Raise(ErrIndexRange, made)
          [] mo.kind = "content" -> Return(mo.content, made)

\* a variant that calls the model a second time when the first call fails
invoke_model_retry(messages, max_tokens, mo) ==
    LET r == invoke_model_try(messages, max_tokens, mo)
    IN  IF r.raised
        THEN Raise(MsgModelFailedHead \o r.exc, r.calls \o r.calls)
        ELSE r

_invoke_model(messages, max_tokens, mo) ==
    LET r == invoke_model_try(messages, max_tokens, mo)
    IN  IF r.raised THEN Raise(MsgModelFailedHead \o r.exc, r.calls) ELSE r

handle_question_answer(context, question, mo) ==
    _invoke_model(
        UserMessage(QAPromptHead \o context \o QAPromptMid \o str(question)
                    \o QAPromptTail),
        300, mo)

generate_summary(text, mo) ==
    _invoke_model(UserMessage(SummaryPromptHead \o text \o SummaryPromptTail),
                  400, mo)

generate_quiz(text, mo) ==
    _invoke_model(UserMessage(QuizPromptHead \o text \o QuizPromptTail),
                  600, mo)

handle_feedback(question, user_answer, correct_answer, mo) ==
    _invoke_model(
        UserMessage(FeedbackPromptHead \o str(question) \o FeedbackPromptMid1
                    \o str(user_answer) \o FeedbackPromptMid2
                    \o str(correct_answer) \o FeedbackPromptTail),
        300, mo)

(***************************************************************************)
(* ResponseBuilder                                                         *)
(***************************************************************************)
Headers ==
    [AccessControlAllowOrigin |-> "*", ContentType |-> "application/json"]

build_success_response(data, action) ==
    [statusCode |-> 200,
     headers |-> Headers,
     body |-> [success |-> TRUE, action |-> action, response |-> data,
               timestamp |-> Timestamp]]

build_error_response(message, status_code) ==
    [statusCode |-> status_code,
     headers |-> Headers,
     body |-> [success |-> FALSE, error |-> message, timestamp |-> Timestamp]]

(***************************************************************************)
(* EduPalAIService                                                         *)
(***************************************************************************)
TextLimit == 5000

\* a variant that slices one character short: text[:4999]
TruncateTextShort(s) ==
    SubSeq(s, 1, IF Len(s) < TextLimit - 1 THEN Len(s) ELSE TextLimit - 1)

\* text[:5000]
TruncateText(s) == SubSeq(s, 1, IF Len(s) < TextLimit THEN Len(s) ELSE TextLimit)

\* the event's shape: a dict without 'body' is itself the request; with
\* 'body', json.loads(event['body']) decides
_parse_request_body(ev) ==
    CASE ev.shape = "direct" -> Return(ev.doc, <<>>)
      [] ev.shape = "body" /\ ev.doc.kind = "invalid" -> Raise(ev.doc.desc, <<>>)
      [] ev.shape = "body" /\ ev.doc.kind # "invalid" -> Return(ev.doc, <<>>)
      [] ev.shape = "null" ->
            Raise(ErrNotIterableHead \o S_NoneType \o ErrNotIterableTail, <<>>)

_handle_pdf_processing(body, po) ==
    LET pdf_data == get(body, "pdf_data", PyStr(<<>>))
    IN  IF ~truthy(pdf_data)
        THEN Return(build_error_response(MsgNoPdfData, 400), <<>>)
        ELSE LET r == extract_text_from_pdf(pdf_data, po)
             IN  IF r.raised THEN r
                 ELSE Return(build_success_response(r.val, S_process_pdf),
                             r.calls)

\* the last line of _handle_ai_actions, reached with the handler's result
ai_success(r, action) ==
    IF r.raised THEN r
    ELSE Return(build_success_response(r.val, action), r.calls)

_handle_ai_actions(action, body, mo) ==
    LET tv == get(body, "text", PyStr(<<>>))
    IN  IF tv.t # "str"
        THEN Raise(ErrQuote \o TypeName(tv) \o ErrNotSubscriptable, <<>>)
        ELSE
        LET text == TruncateText(tv.s)
        IN  IF IsBlank(text)
            THEN Return(build_error_response(MsgNoText, 400), <<>>)
            ELSE
            CASE action = S_qa ->
                    LET question == get(body, "input", PyStr(<<>>))
                    IN  IF ~truthy(question)
                        THEN Return(build_error_response(MsgNoQuestion, 400),
                                    <<>>)
                        ELSE ai_success(
                                 handle_question_answer(text, question, mo),
                                 action)
              [] action = S_summarize ->
                    ai_success(generate_summary(text, mo), action)
              [] action = S_quiz ->
                    ai_success(generate_quiz(text, mo), action)
              [] action = S_feedback ->
                    LET question == get(body, "question", PyStr(<<>>))
                        user_answer == get(body, "user_answer", PyStr(<<>>))
                        correct_answer == get(body, "correct_answer", PyStr(<<>>))
                    IN  IF ~(truthy(question) /\ truthy(user_answer)
                                /\ truthy(correct_answer))
                        THEN Return(
                                 build_error_response(MsgMissingFeedback, 400),
                                 <<>>)
                        \* self.ai_handler.provide_feedback: no such method
                        ELSE Raise(AttributeError(S_AIResponseHandler,
                                                  S_provide_feedback), <<>>)

\* the try block of process_request
process_request_try(ev, mo, po) ==
    LET parsed == _parse_request_body(ev)
    IN  IF parsed.raised THEN parsed
        ELSE IF parsed.val.kind # "object"
        THEN Raise(AttributeError(S_list, S_get), <<>>)
        ELSE
        LET body == parsed.val.fields
            av == get(body, "action", PyStr(<<>>))
        IN  IF av.t # "str"
            THEN Raise(AttributeError(TypeName(av), S_lower), <<>>)
            ELSE
            LET action == lower(av.s)
            IN  IF action = S_process_pdf
                THEN _handle_pdf_processing(body, po)
                ELSE IF action \in {S_qa, S_summarize, S_quiz, S_feedback}
                THEN _handle_ai_actions(action, body, mo)
                ELSE Return(
                         build_error_response(
                             MsgInvalidActionHead \o action
                                 \o MsgInvalidActionTail, 400),
                         <<>>)

\* a variant without the except clause: failures leave the router
process_request_unguarded(ev, mo, po) == process_request_try(ev, mo, po)

\* a variant whose except clause leaves the status code at its default
process_request_default_status(ev, mo, po) ==
    LET r == process_request_try(ev, mo, po)
    IN  IF r.raised
        THEN Return(build_error_response(MsgInternalHead \o r.exc, 400),
                    r.calls)
        ELSE r

process_request(ev, mo, po) ==
    LET r == process_request_try(ev, mo, po)
    IN  IF r.raised
        THEN Return(build_error_response(MsgInternalHead \o r.exc, 500),
                    r.calls)
        ELSE r

lambda_handler(ev, mo, po) ==
    LET r == process_request(ev, mo, po)
    IN  IF r.raised
        THEN Return(build_error_response(MsgUnexpectedHead \o r.exc, 500),
                    r.calls)
        ELSE r

ErrThrottled ==
    <<"T", "h", "r", "o", "t", "t", "l", "i", "n", "g", "E", "x", "c", "e", "p", "t",
      "i", "o", "n", ":", " ", "r", "a", "t", "e", " ", "e", "x", "c", "e", "e", "d",
      "e", "d">>

ErrJsonExpecting ==
    <<"E", "x", "p", "e", "c", "t", "i", "n", "g", " ", "v", "a", "l", "u", "e", ":",
      " ", "l", "i", "n", "e", " ", "1", " ", "c", "o", "l", "u", "m", "n", " ", "1",
      " ", "(", "c", "h", "a", "r", " ", "0", ")">>

ErrPadding ==
    <<"I", "n", "c", "o", "r", "r", "e", "c", "t", " ", "p", "a", "d", "d", "i", "n",
      "g">>

(***************************************************************************)
(* Requests and collaborator answers the model draws from                  *)
(***************************************************************************)
Object(fields) == [kind |-> "object", fields |-> fields, desc |-> <<>>]

Array == [kind |-> "array", fields |-> <<>>, desc |-> <<>>]

Invalid(desc) == [kind |-> "invalid", fields |-> <<>>, desc |-> desc]

\* the event is the request dict itself
Direct(fields) == [shape |-> "direct", doc |-> Object(fields)]

\* the event carries the request as JSON text under 'body'
Wrapped(doc) == [shape |-> "body", doc |-> doc]

NullEvent == [shape |-> "null", doc |-> Array]

\* a dict with the keys whose value is not Absent
Absent == [t |-> "absent", s |-> <<>>, n |-> 0]

Dict(pairs) ==
    LET keys == {p[1] : p \in {q \in pairs : q[2] # Absent}}
    IN  [k \in keys |-> (CHOOSE p \in pairs : p[1] = k)[2]]

ActionValues ==
    {Absent, PyNone, PyInt(7), PyStr(<<>>), PyStr(S_process_pdf), PyStr(S_qa),
     PyStr(<<"Q", "A">>), PyStr(S_summarize), PyStr(S_quiz), PyStr(S_feedback),
     PyStr(<<"d", "e", "l", "e", "t", "e">>), PyStr(<<"q", "a", " ">>)}

TextValues ==
    {Absent, PyNone, PyInt(7), PyStr(<<>>), PyStr(<<" ", "\f", "\n">>),
     PyStr(<<"d", "o", "c">>)}

InputValues ==
    {Absent, PyInt(0), PyInt(7), PyStr(<<>>), PyStr(<<" ">>),
     PyStr(<<"w", "h", "y", "?">>)}

FieldValues == {Absent, PyStr(<<>>), PyStr(<<" ">>), PyStr(<<"B">>)}

PdfValues ==
    {Absent, PyNone, PyInt(7), PyStr(<<>>),
     PyStr(<<"J", "V", "B", "E", "R", "i", "0", "=">>)}

\* the payload call_backend sends: action, text, input
ClientPayloads ==
    {Dict({<<"action", a>>, <<"text", t>>, <<"input", i>>}) :
        a \in ActionValues, t \in TextValues, i \in InputValues}

\* the payload the feedback branch reads
FeedbackPayloads ==
    {Dict({<<"action", PyStr(S_feedback)>>, <<"text", t>>, <<"question", q>>,
           <<"user_answer", u>>, <<"correct_answer", c>>}) :
        t \in {Absent, PyStr(<<"d", "o", "c">>)},
        q \in FieldValues, u \in FieldValues, c \in FieldValues}

PdfPayloads ==
    {Dict({<<"action", PyStr(S_process_pdf)>>, <<"pdf_data", d>>}) :
        d \in PdfValues}

Payloads == ClientPayloads \cup FeedbackPayloads \cup PdfPayloads

Events ==
    {Direct(p) : p \in Payloads}
        \cup {Wrapped(Object(p)) : p \in FeedbackPayloads \cup PdfPayloads}
        \cup {Wrapped(Array), Wrapped(Invalid(ErrJsonExpecting)), NullEvent}

ModelOutcomes ==
    {[kind |-> "transport", desc |-> ErrThrottled, content |-> <<>>],
     [kind |-> "badjson", desc |-> ErrJsonExpecting, content |-> <<>>],
     [kind |-> "nochoices", desc |-> <<>>, content |-> <<>>],
     [kind |-> "emptychoices", desc |-> <<>>, content |-> <<>>],
     [kind |-> "content", desc |-> <<>>, content |-> <<>>],
     [kind |-> "content", desc |-> <<>>,
      content |-> <<"G", "o", "o", "d", ".">>]}

PdfOutcomes ==
    {[kind |-> "error", desc |-> ErrPadding, pages |-> <<>>],
     [kind |-> "pages", desc |-> <<>>, pages |-> <<>>],
     [kind |-> "pages", desc |-> <<>>, pages |-> << <<>>, <<" ">> >>],
     [kind |-> "pages", desc |-> <<>>,
      pages |-> << <<" ", "a">>, <<>>, <<"b", "\n">> >>]}

(***************************************************************************)
(* The service as a state machine: one Lambda invocation at a time; the    *)
(* service keeps nothing between invocations.                              *)
(***************************************************************************)
NoEvent == [shape |-> "none", doc |-> Array]

NoOutcome == [kind |-> "none", desc |-> <<>>, content |-> <<>>, pages |-> <<>>]

NoEnvelope == [statusCode |-> 0, headers |-> Headers, body |-> [timestamp |-> <<>>]]

Init ==
    /\ pc = "idle"
    /\ event = NoEvent
    /\ modelOutcome = NoOutcome
    /\ pdfOutcome = NoOutcome
    /\ envelope = NoEnvelope
    /\ propagated = FALSE
    /\ calls = <<>>
    /\ cleanIn = <<>>
    /\ cleanOut = <<>>
    /\ quizIn = <<>>
    /\ quizOut = <<>>
    /\ quizArg = PyNone
    /\ quizRaised = FALSE
    /\ quizWarning = <<>>
    /\ session = [extracted_text |-> <<>>, current_text |-> <<>>, quiz |-> <<>>,
                quiz_questions |-> <<>>]
    /\ http = [kind |-> "none", gateway |-> "none", payload |-> <<>>]
    /\ page = [answer |-> <<>>, notice |-> "none"]

\* lambda_handler(event, context), with the collaborators answering mo / po
Invoke(evs) ==
    /\ pc = "idle"
    /\ \E ev \in evs, mo \in ModelOutcomes, po \in PdfOutcomes :
        LET routed == process_request(ev, mo, po)
            r == lambda_handler(ev, mo, po)
        IN  /\ event' = ev
            /\ modelOutcome' = mo
            /\ pdfOutcome' = po
            /\ propagated' = routed.raised
            /\ envelope' = r.val
            /\ calls' = r.calls
            /\ pc' = "responded"
    /\ UNCHANGED <<cleanIn, cleanOut, quizIn, quizOut, quizArg, quizRaised,
                   quizWarning, session, http, page>>

LambdaInvocation == Invoke(Events)

\* the invocation is over; the next one starts from the same service
InvocationEnds ==
    /\ pc = "responded"
    /\ pc' = "idle"
    /\ event' = NoEvent
    /\ modelOutcome' = NoOutcome
    /\ pdfOutcome' = NoOutcome
    /\ envelope' = NoEnvelope
    /\ propagated' = FALSE
    /\ calls' = <<>>
    /\ UNCHANGED <<cleanIn, cleanOut, quizIn, quizOut, quizArg, quizRaised,
                   quizWarning, session, http, page>>

Next == LambdaInvocation \/ InvocationEnds

Spec == Init /\ [][Next]_vars

(***************************************************************************)
(* Requests whose document text is around the 5000-character limit         *)
(***************************************************************************)
MaxOver == 2

\* n characters, the i-th one depending on i
Filler(n) == [i \in 1..n |-> LowerAlpha[((i - 1) % Len(LowerAlpha)) + 1]]

Spaces(n) == [i \in 1..n |-> " "]

LongTexts ==
    {Filler(TextLimit + d) : d \in (-1)..MaxOver}
        \cup {Spaces(TextLimit) \o <<"x">>, <<"x">> \o Spaces(TextLimit + 1),
              <<"d", "o", "c">>}

LongEvents ==
    {Direct(Dict({<<"action", PyStr(a)>>, <<"text", PyStr(t)>>, <<"input", i>>,
                  <<"question", q>>, <<"user_answer", q>>,
                  <<"correct_answer", q>>})) :
        a \in {S_qa, S_summarize, S_quiz, S_feedback}, t \in LongTexts,
        i \in {Absent, PyStr(<<"w", "h", "y", "?">>)},
        q \in {Absent, PyStr(<<"B">>)}}

LongInvocation == Invoke(LongEvents)

NextTrunc == LongInvocation \/ InvocationEnds

SpecTrunc == Init /\ [][NextTrunc]_vars

(***************************************************************************)
(* ResponseCleaner (src/app.py)                                            *)
(***************************************************************************)
ThinkingOpen == <<"<", "t", "h", "i", "n", "k", "i", "n", "g", ">">>

ThinkingClose == <<"<", "/", "t", "h", "i", "n", "k", "i", "n", "g", ">">>

ReasoningOpen == <<"<", "r", "e", "a", "s", "o", "n", "i", "n", "g", ">">>

ReasoningClose == <<"<", "/", "r", "e", "a", "s", "o", "n", "i", "n", "g", ">">>

\* the alternatives of the filler pattern, in the order the pattern tries
\* them: Here( is| are|'s) with the typographic apostrophe, Based on,
\* The answer is, In summary
FillerPhrases ==
    <<<<"h", "e", "r", "e", " ", "i", "s">>,
      <<"h", "e", "r", "e", " ", "a", "r", "e">>,
      <<"h", "e", "r", "e", RSQUO, "s">>,
      <<"b", "a", "s", "e", "d", " ", "o", "n">>,
      <<"t", "h", "e", " ", "a", "n", "s", "w", "e", "r", " ", "i", "s">>,
      <<"i", "n", " ", "s", "u", "m", "m", "a", "r", "y">>>>

\* re.IGNORECASE match of the lower-case literal lit in s at position i
MatchesAt(s, i, lit) ==
    /\ i >= 1
    /\ i + Len(lit) - 1 <= Len(s)
    /\ \A k \in 1..Len(lit) : lower_char(s[i + k - 1]) = lit[k]

\* re.sub(open + '.*?' + close, '', s, flags=DOTALL | IGNORECASE), from
\* position i on: the leftmost opening tag with the nearest closing tag after
\* it is removed with everything between, and the scan goes on behind it
RECURSIVE sub_block(_, _, _, _)
sub_block(s, i, open, close) ==
    LET closes == {j \in i..Len(s) : MatchesAt(s, j, close)}
        opens == {k \in i..Len(s) :
                    /\ MatchesAt(s, k, open)
                    /\ \E j \in closes : j >= k + Len(open)}
    IN  IF opens = {} THEN SubSeq(s, i, Len(s))
        ELSE LET k == CHOOSE k \in opens : \A m \in opens : k <= m
                 after == {j \in closes : j >= k + Len(open)}
                 j == CHOOSE j \in after : \A m \in after : j <= m
             IN  SubSeq(s, i, k - 1)
                    \o sub_block(s, j + Len(close), open, close)

\* [a-z_] under IGNORECASE
IsTagChar(c) == islower(lower_char(c)) \/ c = "_"

\* the length of the match of </?[a-z_]+> at position i, 0 when there is none
TagLength(s, i) ==
    IF i > Len(s) \/ s[i] # "<" THEN 0
    ELSE LET k == IF i + 1 <= Len(s) /\ s[i + 1] = "/" THEN i + 2 ELSE i + 1
         IN  IF k > Len(s) THEN 0
             ELSE LET e == CHOOSE e \in k..(Len(s) + 1) :
                             /\ \A m \in k..(e - 1) : IsTagChar(s[m])
                             /\ (e = Len(s) + 1 \/ ~IsTagChar(s[e]))
                  IN  IF e > k /\ e <= Len(s) /\ s[e] = ">"
                      THEN e - i + 1
                      ELSE 0

\* re.sub(r'</?[a-z_]+>', '', s, flags=DOTALL | IGNORECASE), from position i on
RECURSIVE sub_tags(_, _)
sub_tags(s, i) ==
    LET tags == {k \in i..Len(s) : TagLength(s, k) > 0}
    IN  IF tags = {} THEN SubSeq(s, i, Len(s))
        ELSE LET k == CHOOSE k \in tags : \A m \in tags : k <= m
             IN  SubSeq(s, i, k - 1) \o sub_tags(s, k + TagLength(s, k))

\* re.sub(r'^(Here( is| are|'s)|Based on|The answer is|In summary)[:\s]*', '', s):
\* without MULTILINE, ^ is the start of the text only
sub_filler(s) ==
    IF \E p \in DOMAIN FillerPhrases : MatchesAt(s, 1, FillerPhrases[p])
    THEN LET p == CHOOSE p \in DOMAIN FillerPhrases :
                    /\ MatchesAt(s, 1, FillerPhrases[p])
                    /\ \A q \in 1..(p - 1) : ~MatchesAt(s, 1, FillerPhrases[q])
             k == Len(FillerPhrases[p]) + 1
             e == CHOOSE e \in k..(Len(s) + 1) :
                    /\ \A m \in k..(e - 1) : s[m] = ":" \/ isspace(s[m])
                    /\ (e = Len(s) + 1 \/ ~(s[e] = ":" \/ isspace(s[e])))
         IN  SubSeq(s, e, Len(s))
    ELSE s

\* re.sub(r'\s+', ' ', s), from position i on
RECURSIVE sub_spaces(_, _)
sub_spaces(s, i) ==
    LET blanks == {k \in i..Len(s) : isspace(s[k])}
    IN  IF blanks = {} THEN SubSeq(s, i, Len(s))
        ELSE LET k == CHOOSE k \in blanks : \A m \in blanks : k <= m
                 e == CHOOSE e \in (k + 1)..(Len(s) + 1) :
                        /\ \A m \in k..(e - 1) : isspace(s[m])
                        /\ (e = Len(s) + 1 \/ ~isspace(s[e]))
             IN  SubSeq(s, i, k - 1) \o <<" ">> \o sub_spaces(s, e)

\* a variant that strips the filler phrase first and the tags after it
remove_patterns_filler_first(text) ==
    sub_tags(
        sub_block(sub_block(sub_filler(text), 1, ThinkingOpen, ThinkingClose), 1,
                  ReasoningOpen, ReasoningClose),
        1)

\* the four rewrites of patterns_to_remove, in their order
remove_patterns(text) ==
    sub_filler(
        sub_tags(
            sub_block(sub_block(text, 1, ThinkingOpen, ThinkingClose), 1,
                      ReasoningOpen, ReasoningClose),
            1))

clean_response(text) ==
    IF text = <<>> THEN text
    ELSE LET cleaned_text == strip(sub_spaces(remove_patterns(text), 1))
         IN  IF cleaned_text # <<>> /\ islower(cleaned_text[1])
             THEN <<upper_char(cleaned_text[1])>> \o Tail(cleaned_text)
             ELSE cleaned_text

(***************************************************************************)
(* UIManager._parse_quiz_questions (src/app.py)                            *)
(***************************************************************************)
\* str.split('\n')
RECURSIVE split_lines(_)
split_lines(s) ==
    IF \A i \in 1..Len(s) : s[i] # "\n" THEN <<s>>
    ELSE LET i == CHOOSE i \in 1..Len(s) :
                    s[i] = "\n" /\ \A j \in 1..(i - 1) : s[j] # "\n"
         IN  <<SubSeq(s, 1, i - 1)>> \o split_lines(SubSeq(s, i + 1, Len(s)))

\* d[key] = value on a dict kept as the sequence of its <<key, value>> items
dict_set(d, key, value) ==
    IF \E i \in DOMAIN d : d[i][1] = key
    THEN [i \in DOMAIN d |-> IF d[i][1] = key THEN <<key, value>> ELSE d[i]]
    ELSE Append(d, <<key, value>>)

\* f"Q{question_number}"
QuestionKey(question_number) == <<"Q">> \o str_int(question_number)

\* line.startswith(f'{question_number}.') or line.startswith(f'{question_number} ')
StartsQuestion(line, question_number) ==
    \/ startswith(line, str_int(question_number) \o <<".">>)
    \/ startswith(line, str_int(question_number) \o <<" ">>)

\* the for loop from line i on, and the flush after it
RECURSIVE parse_lines(_, _, _, _, _)
parse_lines(lines, i, questions, current_question, question_number) ==
    IF i > Len(lines)
    THEN IF current_question # <<>>
         THEN dict_set(questions, QuestionKey(question_number),
                       strip(current_question))
         ELSE questions
    ELSE LET line == strip(lines[i])
         IN  IF line # <<>> /\ StartsQuestion(line, question_number)
             THEN IF current_question # <<>>
                  THEN parse_lines(lines, i + 1,
                                   dict_set(questions,
                                            QuestionKey(question_number),
                                            strip(current_question)),
                                   line, question_number + 1)
                  ELSE parse_lines(lines, i + 1, questions, line,
                                   question_number)
             ELSE IF current_question # <<>> /\ line # <<>>
             THEN parse_lines(lines, i + 1, questions,
                              current_question \o <<" ">> \o line,
                              question_number)
             ELSE parse_lines(lines, i + 1, questions, current_question,
                              question_number)

_parse_quiz_questions(quiz_text) ==
    parse_lines(split_lines(quiz_text), 1, <<>>, <<>>, 1)

S_split == <<"s", "p", "l", "i", "t">>

MsgCouldNotParse ==
    <<"N", "o", "t", "e", ":", " ", "C", "o", "u", "l", "d", " ", "n", "o", "t", " ",
      "p", "a", "r", "s", "e", " ", "q", "u", "i", "z", " ", "q", "u", "e", "s", "t",
      "i", "o", "n", "s", " ", "f", "o", "r", " ", "d", "r", "o", "p", "d", "o", "w",
      "n", ".", " ", "E", "r", "r", "o", "r", ":", " ">>

\* the try block entered with any value: a value without split raises at once
parse_quiz_try(quiz_text) ==
    IF quiz_text.t = "str"
    THEN Return(_parse_quiz_questions(quiz_text.s), <<>>)
    ELSE Raise(AttributeError(TypeName(quiz_text), S_split), <<>>)

\* the call without its except clause
parse_quiz_unguarded(quiz_text) ==
    LET r == parse_quiz_try(quiz_text)
    IN  [raised |-> r.raised, val |-> r.val, warning |-> <<>>]

\* the call as a whole: the except clause warns and the dict filled so far
\* is returned
parse_quiz_call(quiz_text) ==
    LET r == parse_quiz_try(quiz_text)
    IN  IF r.raised
        THEN [raised |-> FALSE, val |-> <<>>,
              warning |-> MsgCouldNotParse \o r.exc]
        ELSE [raised |-> FALSE, val |-> r.val, warning |-> <<>>]

(***************************************************************************)
(* The cleaner and the parser applied to texts a model may return          *)
(***************************************************************************)
MaxFragments == 3

CleanFragments ==
    {<<"<", "t", "h", "i", "n", "k", "i", "n", "g", ">">>,
     <<"<", "/", "t", "h", "i", "n", "k", "i", "n", "g", ">">>,
     <<"<", "T", "H", "I", "N", "K", "I", "N", "G", ">">>,
     <<"<", "/", "T", "h", "i", "n", "k", "i", "n", "g", ">">>,
     <<"<", "r", "e", "a", "s", "o", "n", "i", "n", "g", ">">>,
     <<"<", "/", "r", "e", "a", "s", "o", "n", "i", "n", "g", ">">>,
     <<"<", "b", ">">>,
     <<"<", "t", "h", "i", "n", "k", "<", "b", ">", "i", "n", "g", ">">>,
     <<"<", "/", "t", "h", "i", "n", "k", "<", "b", ">", "i", "n", "g", ">">>,
     <<"H", "e", "r", "e", " ", "i", "s">>,
     <<"h", "e", "r", "e", RSQUO, "s">>,
     <<"B", "a", "s", "e", "d", " ", "o", "n">>,
     <<":", " ">>,
     <<" ">>,
     <<"\n">>,
     <<"s", "e", "c", "r", "e", "t">>,
     <<"A", "n", "s", "w", "e", "r", ":", " ", "4">>,
     <<"p", "l", "a", "n", "t", "s", ".">>}

\* the fragments of fs, one after the other
RECURSIVE Flatten(_)
Flatten(fs) == IF fs = <<>> THEN <<>> ELSE Head(fs) \o Flatten(Tail(fs))

CleanInputs ==
    {Flatten(fs) : fs \in UNION {[1..n -> CleanFragments] : n \in 0..MaxFragments}}

MaxBlocks == 3

QuestionLines ==
    {<<"1", ".", " ", "Q", " ", "o", "n", "e">>,
     <<"2", ".", " ", "Q", " ", "t", "w", "o">>,
     <<"3", ".", " ", "Q", " ", "t", "h", "r", "e", "e">>,
     <<"Q", "1", ".", " ", "W", "h", "a", "t", "?">>,
     <<"1", " ", "o", "n", "e">>,
     <<" ", " ", "I", "n", "t", "r", "o">>,
     <<"\t", "1", ".", " ", "T", "a", "b">>,
     <<"1", "0", " ", "t", "e", "n">>}

OptionLines ==
    {<<>>,
     <<<<"A", ")", " ", "x">>, <<>>, <<" ", "B", ")", " ", "y", " ">>>>}

\* a question line followed by its option lines
QuizBlocks == {<<q>> \o o : q \in QuestionLines, o \in OptionLines}

\* '\n'.join(lines)
RECURSIVE JoinLines(_)
JoinLines(lines) ==
    IF lines = <<>> THEN <<>>
    ELSE IF Len(lines) = 1 THEN lines[1]
    ELSE lines[1] \o <<"\n">> \o JoinLines(Tail(lines))

QuizInputs ==
    {JoinLines(Flatten(bs)) :
        bs \in UNION {[1..n -> QuizBlocks] : n \in 0..MaxBlocks}}

\* what the parser may be called with: a text, or a value that is no str
QuizArgs == {PyStr(t) : t \in QuizInputs} \cup {PyNone, PyInt(7)}

\* ResponseCleaner.clean_response(text)
CleanResponse ==
    /\ pc = "idle"
    /\ \E text \in CleanInputs :
        /\ cleanIn' = text
        /\ cleanOut' = clean_response(text)
    /\ pc' = "cleaned"
    /\ UNCHANGED <<event, modelOutcome, pdfOutcome, envelope, propagated, calls,
                   quizIn, quizOut, quizArg, quizRaised, quizWarning, session,
                   http, page>>

\* the cleaned text has been shown
CleanShown ==
    /\ pc = "cleaned"
    /\ pc' = "idle"
    /\ cleanIn' = <<>>
    /\ cleanOut' = <<>>
    /\ UNCHANGED <<event, modelOutcome, pdfOutcome, envelope, propagated, calls,
                   quizIn, quizOut, quizArg, quizRaised, quizWarning, session,
                   http, page>>

NextClean == CleanResponse \/ CleanShown

SpecClean == Init /\ [][NextClean]_vars

\* UIManager._parse_quiz_questions(quiz_text)
ParseQuiz ==
    /\ pc = "idle"
    /\ \E quiz_text \in QuizArgs :
        LET r == parse_quiz_call(quiz_text)
        IN  /\ quizArg' = quiz_text
            /\ quizIn' = IF quiz_text.t = "str" THEN quiz_text.s ELSE <<>>
            /\ quizOut' = r.val
            /\ quizRaised' = r.raised
            /\ quizWarning' = r.warning
    /\ pc' = "parsed"
    /\ UNCHANGED <<event, modelOutcome, pdfOutcome, envelope, propagated, calls,
                   cleanIn, cleanOut, session, http, page>>

\* the questions have been offered in the dropdown
QuizShown ==
    /\ pc = "parsed"
    /\ pc' = "idle"
    /\ quizIn' = <<>>
    /\ quizOut' = <<>>
    /\ quizArg' = PyNone
    /\ quizRaised' = FALSE
    /\ quizWarning' = <<>>
    /\ UNCHANGED <<event, modelOutcome, pdfOutcome, envelope, propagated, calls,
                   cleanIn, cleanOut, session, http, page>>

NextQuiz == ParseQuiz \/ QuizShown

SpecQuiz == Init /\ [][NextQuiz]_vars

(***************************************************************************)
(* The client (src/app.py): APIClient.call_backend posts the payload to    *)
(* the API, which hands it to lambda_handler and carries the answer back.  *)
(* How the API does so is not decided by the program: with a proxy         *)
(* integration the event holds the payload as JSON text under 'body' and   *)
(* the envelope's statusCode and body become the HTTP status and body;     *)
(* with a mapped integration the event is the payload and the envelope is  *)
(* the body of a 200 answer.  The request may also never be answered       *)
(* (connection), be answered too late (timeout, the backend having run),   *)
(* or be answered by something that is no JSON (garbled).                  *)
(***************************************************************************)
ALARM == "U+23F0"

PLUG == "U+1F50C"

SIREN == "U+1F6A8"

CROSSMARK == "U+274C"

MsgTimeout ==
    <<ALARM, " ", "R", "e", "q", "u", "e", "s", "t", " ", "t", "i", "m", "e", "o", "u",
      "t", " ", "-", " ", "p", "l", "e", "a", "s", "e", " ", "t", "r", "y", " ", "a",
      "g", "a", "i", "n">>

MsgConnection ==
    <<PLUG, " ", "C", "o", "n", "n", "e", "c", "t", "i", "o", "n", " ", "e", "r", "r",
      "o", "r", " ", "-", " ", "c", "h", "e", "c", "k", " ", "y", "o", "u", "r", " ",
      "i", "n", "t", "e", "r", "n", "e", "t", " ", "c", "o", "n", "n", "e", "c", "t",
      "i", "o", "n">>

MsgApiErrorHead == <<SIREN, " ", "A", "P", "I", " ", "E", "r", "r", "o", "r", " ">>

MsgClientErrorHead == <<CROSSMARK, " ", "E", "r", "r", "o", "r", ":", " ">>

MsgNoResponse ==
    <<"N", "o", " ", "r", "e", "s", "p", "o", "n", "s", "e", " ", "f", "o", "u", "n",
      "d">>

JsonSuccessHead ==
    <<"{", "\"", "s", "u", "c", "c", "e", "s", "s", "\"", ":", " ", "t", "r", "u", "e",
      ",", " ", "\"", "a", "c", "t", "i", "o", "n", "\"", ":", " ">>

JsonResponseKey ==
    <<",", " ", "\"", "r", "e", "s", "p", "o", "n", "s", "e", "\"", ":", " ">>

JsonErrorHead ==
    <<"{", "\"", "s", "u", "c", "c", "e", "s", "s", "\"", ":", " ", "f", "a", "l", "s",
      "e", ",", " ", "\"", "e", "r", "r", "o", "r", "\"", ":", " ">>

JsonTimestampKey ==
    <<",", " ", "\"", "t", "i", "m", "e", "s", "t", "a", "m", "p", "\"", ":", " ">>

JsonQuestionKey ==
    <<"{", "\"", "q", "u", "e", "s", "t", "i", "o", "n", "\"", ":", " ">>

JsonUserAnswerKey ==
    <<",", " ", "\"", "u", "s", "e", "r", "_", "a", "n", "s", "w", "e", "r", "\"", ":",
      " ">>

JsonCorrectAnswerKey ==
    <<",", " ", "\"", "c", "o", "r", "r", "e", "c", "t", "_", "a", "n", "s", "w", "e",
      "r", "\"", ":", " ">>

TestText ==
    <<"A", "I", " ", "i", "s", " ", "a", "r", "t", "i", "f", "i", "c", "i", "a", "l",
      " ", "i", "n", "t", "e", "l", "l", "i", "g", "e", "n", "c", "e">>

TestQuestion == <<"W", "h", "a", "t", " ", "i", "s", " ", "A", "I", "?">>

\* json.dumps of one character of a str (ensure_ascii): printable ASCII is
\* kept, the quote and the backslash are escaped, a control character has
\* its short escape (\b \f \n \r \t) or \u00XX, any other character \uXXXX,
\* with a surrogate pair above U+FFFF
json_char(c) ==
    CASE c = "\"" -> <<"\\", "\"">>
      [] c = "\\" -> <<"\\", "\\">>
      [] c = "\n" -> <<"\\", "n">>
      [] c = "\r" -> <<"\\", "r">>
      [] c = "\t" -> <<"\\", "t">>
      [] c = "\f" -> <<"\\", "f">>
      [] c = RSQUO -> <<"\\", "u", "2", "0", "1", "9">>
      [] c = ALARM -> <<"\\", "u", "2", "3", "f", "0">>
      [] c = PLUG -> <<"\\", "u", "d", "8", "3", "d", "\\", "u", "d", "d", "0", "c">>
      [] c = SIREN -> <<"\\", "u", "d", "8", "3", "d", "\\", "u", "d", "e", "a", "8">>
      [] c = CROSSMARK -> <<"\\", "u", "2", "7", "4", "c">>
      [] c = "U+0000" -> <<"\\", "u", "0", "0", "0", "0">>
      [] c = "U+0001" -> <<"\\", "u", "0", "0", "0", "1">>
      [] c = "U+0002" -> <<"\\", "u", "0", "0", "0", "2">>
      [] c = "U+0003" -> <<"\\", "u", "0", "0", "0", "3">>
      [] c = "U+0004" -> <<"\\", "u", "0", "0", "0", "4">>
      [] c = "U+0005" -> <<"\\", "u", "0", "0", "0", "5">>
      [] c = "U+0006" -> <<"\\", "u", "0", "0", "0", "6">>
      [] c = "U+0007" -> <<"\\", "u", "0", "0", "0", "7">>
      [] c = "U+0008" -> <<"\\", "b">>
      [] c = "U+000B" -> <<"\\", "u", "0", "0", "0", "b">>
      [] c = "U+000E" -> <<"\\", "u", "0", "0", "0", "e">>
      [] c = "U+000F" -> <<"\\", "u", "0", "0", "0", "f">>
      [] c = "U+0010" -> <<"\\", "u", "0", "0", "1", "0">>
      [] c = "U+0011" -> <<"\\", "u", "0", "0", "1", "1">>
      [] c = "U+0012" -> <<"\\", "u", "0", "0", "1", "2">>
      [] c = "U+0013" -> <<"\\", "u", "0", "0", "1", "3">>
      [] c = "U+0014" -> <<"\\", "u", "0", "0", "1", "4">>
      [] c = "U+0015" -> <<"\\", "u", "0", "0", "1", "5">>
      [] c = "U+0016" -> <<"\\", "u", "0", "0", "1", "6">>
      [] c = "U+0017" -> <<"\\", "u", "0", "0", "1", "7">>
      [] c = "U+0018" -> <<"\\", "u", "0", "0", "1", "8">>
      [] c = "U+0019" -> <<"\\", "u", "0", "0", "1", "9">>
      [] c = "U+001A" -> <<"\\", "u", "0", "0", "1", "a">>
      [] c = "U+001B" -> <<"\\", "u", "0", "0", "1", "b">>
      [] c = "U+001C" -> <<"\\", "u", "0", "0", "1", "c">>
      [] c = "U+001D" -> <<"\\", "u", "0", "0", "1", "d">>
      [] c = "U+001E" -> <<"\\", "u", "0", "0", "1", "e">>
      [] c = "U+001F" -> <<"\\", "u", "0", "0", "1", "f">>
      [] c = "U+007F" -> <<"\\", "u", "0", "0", "7", "f">>
      [] c = "U+0085" -> <<"\\", "u", "0", "0", "8", "5">>
      [] c = "U+00A0" -> <<"\\", "u", "0", "0", "a", "0">>
      [] c = "U+1680" -> <<"\\", "u", "1", "6", "8", "0">>
      [] c = "U+2000" -> <<"\\", "u", "2", "0", "0", "0">>
      [] c = "U+2001" -> <<"\\", "u", "2", "0", "0", "1">>
      [] c = "U+2002" -> <<"\\", "u", "2", "0", "0", "2">>
      [] c = "U+2003" -> <<"\\", "u", "2", "0", "0", "3">>
      [] c = "U+2004" -> <<"\\", "u", "2", "0", "0", "4">>
      [] c = "U+2005" -> <<"\\", "u", "2", "0", "0", "5">>
      [] c = "U+2006" -> <<"\\", "u", "2", "0", "0", "6">>
      [] c = "U+2007" -> <<"\\", "u", "2", "0", "0", "7">>
      [] c = "U+2008" -> <<"\\", "u", "2", "0", "0", "8">>
      [] c = "U+2009" -> <<"\\", "u", "2", "0", "0", "9">>
      [] c = "U+200A" -> <<"\\", "u", "2", "0", "0", "a">>
      [] c = "U+2028" -> <<"\\", "u", "2", "0", "2", "8">>
      [] c = "U+2029" -> <<"\\", "u", "2", "0", "2", "9">>
      [] c = "U+202F" -> <<"\\", "u", "2", "0", "2", "f">>
      [] c = "U+205F" -> <<"\\", "u", "2", "0", "5", "f">>
      [] c = "U+3000" -> <<"\\", "u", "3", "0", "0", "0">>
      [] OTHER -> <<c>>

\* json.dumps(s) of a str
RECURSIVE json_chars(_, _, _)
json_chars(s, lo, hi) ==
    IF lo > hi THEN <<>>
    ELSE IF lo = hi THEN json_char(s[lo])
    ELSE LET mid == (lo + hi) \div 2
         IN  json_chars(s, lo, mid) \o json_chars(s, mid + 1, hi)

json_str(s) == <<"\"">> \o json_chars(s, 1, Len(s)) \o <<"\"">>

\* the text of an envelope's body: json.dumps of the dict the builder fills
json_dumps_body(body) ==
    IF body.success
    THEN JsonSuccessHead \o json_str(body.action) \o JsonResponseKey
            \o json_str(body.response) \o JsonTimestampKey
            \o json_str(body.timestamp) \o <<"}">>
    ELSE JsonErrorHead \o json_str(body.error) \o JsonTimestampKey
            \o json_str(body.timestamp) \o <<"}">>

\* json.dumps(feedback_data)
json_dumps_feedback(question, user_answer, correct_answer) ==
    JsonQuestionKey \o json_str(question) \o JsonUserAnswerKey
        \o json_str(user_answer) \o JsonCorrectAnswerKey
        \o json_str(correct_answer) \o <<"}">>

\* d.get('response', 'No response found') on a decoded JSON object
get_response(d) ==
    IF "response" \in DOMAIN d THEN d.response ELSE MsgNoResponse

_extract_response_data(response_data) ==
    IF "body" \in DOMAIN response_data
    THEN LET body_content == response_data.body
         IN  get_response(body_content)
    ELSE get_response(response_data)

\* the payload call_backend posts
Payload(action, text, user_input) ==
    Dict({<<"action", PyStr(action)>>, <<"text", PyStr(text)>>,
          <<"input", PyStr(user_input)>>})

\* the Lambda event the API makes of a payload
GatewayEvent(payload, gateway) ==
    IF gateway = "proxy" THEN Wrapped(Object(payload)) ELSE Direct(payload)

\* the call's result: what it returned (answer), the Lambda invocation it
\* caused (event, envelope, calls) and the text it gave to the cleaner
NotCleaned == [called |-> FALSE, text |-> <<>>]

Cleaned(raw_response) == [called |-> TRUE, text |-> raw_response]

BackendResult(answer, ev, env, made, cleaner) ==
    [answer |-> answer, event |-> ev, envelope |-> env, calls |-> made,
     cleaner |-> cleaner]

\* the branch taken on an answered request: status 200 or not
on_response(status, response_data, response_text, ev, r) ==
    IF status = 200
    THEN LET raw_response == _extract_response_data(response_data)
         IN  BackendResult(clean_response(raw_response), ev, r.val, r.calls,
                           Cleaned(raw_response))
    ELSE BackendResult(MsgApiErrorHead \o str_int(status) \o <<":", " ">>
                            \o response_text,
                       ev, r.val, r.calls, NotCleaned)

\* what becomes of the request: ev is the event the API makes of it and r
\* what lambda_handler returns for it
http_exchange(net, ev, r) ==
    CASE net.kind = "connection" ->
            BackendResult(MsgConnection, NoEvent, NoEnvelope, <<>>, NotCleaned)
      [] net.kind = "garbled" ->
            BackendResult(MsgClientErrorHead \o ErrJsonExpecting, NoEvent,
                          NoEnvelope, <<>>, NotCleaned)
      [] net.kind = "timeout" ->
            BackendResult(MsgTimeout, ev, r.val, r.calls, NotCleaned)
      [] net.kind = "answered" /\ net.gateway = "proxy" ->
            on_response(r.val.statusCode, r.val.body,
                        json_dumps_body(r.val.body), ev, r)
      [] net.kind = "answered" /\ net.gateway = "mapped" ->
            on_response(200, r.val, <<>>, ev, r)

\* F(x), with x evaluated once
Once(F(_), x) == CHOOSE y \in {F(v) : v \in {x}} : TRUE

call_backend(action, text, user_input, net, mo) ==
    Once(LAMBDA ev :
            Once(LAMBDA r : http_exchange(net, ev, r),
                 lambda_handler(ev, mo, NoOutcome)),
         GatewayEvent(Payload(action, text, user_input), net.gateway))

(***************************************************************************)
(* What the user and the network may do                                    *)
(***************************************************************************)
BlockIgnore ==
    <<"<", "t", "h", "i", "n", "k", "i", "n", "g", ">", "i", "g", "n", "o", "r", "e",
      "<", "/", "t", "h", "i", "n", "k", "i", "n", "g", ">">>

BlockTwoLines ==
    <<"<", "R", "E", "A", "S", "O", "N", "I", "N", "G", ">", "a", "\n", "b", "<", "/",
      "R", "e", "a", "s", "o", "n", "i", "n", "g", ">">>

FillerHereIs == <<"h", "e", "r", "e", " ", "i", "s">>

FillerBasedOn == <<"B", "a", "s", "e", "d", " ", "o", "n", ":", "\n", " ">>

RestSummary ==
    <<" ", "a", " ", "s", "u", "m", "m", "a", "r", "y", ":", " ", "p", "l", "a", "n",
      "t", "s", " ", "u", "s", "e", " ", "l", "i", "g", "h", "t", ".">>

RestSummaryCleaned ==
    <<"A", " ", "s", "u", "m", "m", "a", "r", "y", ":", " ", "p", "l", "a", "n", "t",
      "s", " ", "u", "s", "e", " ", "l", "i", "g", "h", "t", ".">>

RestMarkup ==
    <<"<", "b", ">", "l", "i", "g", "h", "t", "<", "/", "b", ">", " ", " ", "f", "e",
      "e", "d", "s", "\n", "p", "l", "a", "n", "t", "s", ".", " ">>

RestMarkupCleaned ==
    <<"L", "i", "g", "h", "t", " ", "f", "e", "e", "d", "s", " ", "p", "l", "a", "n",
      "t", "s", ".">>

QuizAsPrompted ==
    <<"Q", "1", ".", " ", "W", "h", "a", "t", " ", "d", "o", " ", "p", "l", "a", "n",
      "t", "s", " ", "u", "s", "e", "?", "\n", "A", ")", " ", "L", "i", "g", "h", "t",
      "\n", "B", ")", " ", "S", "a", "n", "d", "\n", "C", ")", " ", "S", "a", "l", "t",
      "\n", "D", ")", " ", "I", "r", "o", "n", "\n", "\n", "Q", "2", ".", " ", "W",
      "h", "a", "t", " ", "i", "s", " ", "m", "a", "d", "e", "?", "\n", "A", ")", " ",
      "E", "n", "e", "r", "g", "y", "\n", "B", ")", " ", "R", "o", "c", "k", "\n", "C",
      ")", " ", "W", "i", "n", "d", "\n", "D", ")", " ", "R", "a", "i", "n", "\n",
      "\n", "Q", "3", ".", " ", "W", "h", "o", " ", "d", "o", "e", "s", " ", "i", "t",
      "?", "\n", "A", ")", " ", "P", "l", "a", "n", "t", "s", "\n", "B", ")", " ", "C",
      "a", "r", "s", "\n", "C", ")", " ", "B", "i", "r", "d", "s", "\n", "D", ")", " ",
      "F", "i", "s", "h">>

QuizNumbered ==
    <<"<", "t", "h", "i", "n", "k", "i", "n", "g", ">", "p", "l", "a", "n", "<", "/",
      "t", "h", "i", "n", "k", "i", "n", "g", ">", "1", ".", " ", "W", "h", "a", "t",
      " ", "d", "o", " ", "p", "l", "a", "n", "t", "s", " ", "u", "s", "e", "?", "\n",
      "A", ")", " ", "L", "i", "g", "h", "t", "\n", "B", ")", " ", "S", "a", "n", "d",
      "\n", "2", ".", " ", "W", "h", "a", "t", " ", "i", "s", " ", "m", "a", "d", "e",
      "?", "\n", "A", ")", " ", "E", "n", "e", "r", "g", "y", "\n", "B", ")", " ", "R",
      "o", "c", "k", "\n", "3", ".", " ", "W", "h", "o", " ", "d", "o", "e", "s", " ",
      "i", "t", "?", "\n", "A", ")", " ", "P", "l", "a", "n", "t", "s", "\n", "B", ")",
      " ", "C", "a", "r", "s">>

S_doc ==
    <<"P", "h", "o", "t", "o", "s", "y", "n", "t", "h", "e", "s", "i", "s", " ", "c",
      "o", "n", "v", "e", "r", "t", "s", " ", "l", "i", "g", "h", "t", ".">>

S_What == <<"W", "h", "a", "t", "?">>

\* the text pasted in the text area
DocTexts == {S_doc, <<" ", "\f", "\n">>}

\* the question typed in a text input
QuestionTexts == {<<>>, S_What}

\* the letter typed as an answer
AnswerTexts == {<<>>, <<" ", "b", " ">>, <<"a">>, <<"e">>}

\* completions of the form reasoning block, filler phrase, remaining text;
\* cleaned is the remaining text as a reader would see it
SummaryBlocks == {BlockIgnore, BlockTwoLines}

SummaryFillers == {FillerHereIs, FillerBasedOn}

SummaryRests ==
    {[text |-> RestSummary, cleaned |-> RestSummaryCleaned],
     [text |-> RestMarkup, cleaned |-> RestMarkupCleaned]}

SummaryCompletions ==
    {b \o f \o r.text : b \in SummaryBlocks, f \in SummaryFillers,
                        r \in SummaryRests}

QuizCompletions == {QuizAsPrompted, QuizNumbered}

AppModelOutcomes ==
    {[kind |-> "transport", desc |-> ErrThrottled, content |-> <<>>]}
        \cup {[kind |-> "content", desc |-> <<>>, content |-> c] :
                c \in SummaryCompletions \cup QuizCompletions}

NetOutcomes ==
    {[kind |-> k, gateway |-> g] :
        k \in {"answered", "timeout"}, g \in {"proxy", "mapped"}}
        \cup {[kind |-> "connection", gateway |-> "proxy"],
              [kind |-> "garbled", gateway |-> "proxy"]}

(***************************************************************************)
(* UIManager: one button press at a time; st.session_state is kept from    *)
(* one run of the script to the next.                                      *)
(***************************************************************************)
NoSession ==
    [extracted_text |-> <<>>, current_text |-> <<>>, quiz |-> <<>>,
     quiz_questions |-> <<>>]

NoRequest == [kind |-> "none", gateway |-> "none", payload |-> <<>>]

NoPage == [answer |-> <<>>, notice |-> "none"]

\* str.upper()
upper(s) == [i \in 1..Len(s) |-> upper_char(s[i])]

\* list(d.keys()) of a dict kept as a sequence of items
keys(d) == [i \in DOMAIN d |-> d[i][1]]

\* what a call of call_backend leaves behind
BackendCalled(b, net, mo, payload) ==
    /\ http' = [kind |-> net.kind, gateway |-> net.gateway, payload |-> payload]
    /\ event' = b.event
    /\ modelOutcome' = mo
    /\ pdfOutcome' = NoOutcome
    /\ envelope' = b.envelope
    /\ propagated' = /\ b.event # NoEvent
                     /\ process_request(b.event, mo, NoOutcome).raised
    /\ calls' = b.calls
    /\ cleanIn' = b.cleaner.text
    /\ cleanOut' = IF b.cleaner.called THEN b.answer ELSE <<>>

\* the files given to the uploader: the MIME type the browser reports and
\* what reading the file gives (reading raises when kind is "error";
\* otherwise a text file decodes to content and a PDF has pages, each with
\* the text extract_text() finds)
UploadedFiles ==
    {[type |-> "text/plain", kind |-> "read", desc |-> <<>>,
      content |->
          <<"\f", "U", "p", "l", "o", "a", "d", "e", "d", " ", "n", "o", "t",
            "e", "s", "\n">>,
      pages |-> <<>>],
     [type |-> "text/plain", kind |-> "read", desc |-> <<>>,
      content |-> <<" ", "\f", "\n">>, pages |-> <<>>],
     [type |-> "text/plain", kind |-> "error",
      desc |->
          <<"'", "u", "t", "f", "-", "8", "'", " ", "c", "o", "d", "e", "c",
            " ", "c", "a", "n", "'", "t", " ", "d", "e", "c", "o", "d", "e",
            " ", "b", "y", "t", "e", " ", "0", "x", "f", "f", " ", "i", "n",
            " ", "p", "o", "s", "i", "t", "i", "o", "n", " ", "0", ":", " ",
            "i", "n", "v", "a", "l", "i", "d", " ", "s", "t", "a", "r", "t",
            " ", "b", "y", "t", "e">>,
      content |-> <<>>, pages |-> <<>>],
     [type |-> "application/pdf", kind |-> "error",
      desc |->
          <<"E", "O", "F", " ", "m", "a", "r", "k", "e", "r", " ", "n", "o",
            "t", " ", "f", "o", "u", "n", "d">>,
      content |-> <<>>, pages |-> <<>>],
     [type |-> "application/pdf", kind |-> "read", desc |-> <<>>,
      content |-> <<>>, pages |-> << <<>>, <<>> >>],
     [type |-> "application/pdf", kind |-> "read", desc |-> <<>>,
      content |-> <<>>,
      pages |-> << <<" ", "L", "i", "g", "h", "t", ".">>, <<>>,
                   <<"b", "\n">> >>],
     [type |-> "application/octet-stream", kind |-> "read", desc |-> <<>>,
      content |-> <<"n", "o", "t", "e", "s">>, pages |-> <<>>]}

\* FileProcessor.extract_text_from_txt: val is the text returned, <<>> for
\* None; error is the text given to st.error, <<>> if none
extract_text_from_txt(uploaded_file) ==
    IF uploaded_file.kind = "error"
    THEN [val |-> <<>>,
          error |->
              <<CROSSMARK, " ", "E", "r", "r", "o", "r", " ", "r", "e", "a",
                "d", "i", "n", "g", " ", "t", "e", "x", "t", " ", "f", "i",
                "l", "e", ":", " ">>
              \o uploaded_file.desc]
    ELSE [val |-> strip(uploaded_file.content), error |-> <<>>]

\* FileProcessor.extract_text_from_pdf, likewise
FileProcessor_extract_text_from_pdf(uploaded_file) ==
    IF uploaded_file.kind = "error"
    THEN [val |-> <<>>,
          error |->
              <<CROSSMARK, " ", "E", "r", "r", "o", "r", " ", "r", "e", "a",
                "d", "i", "n", "g", " ", "P", "D", "F", ":", " ">>
              \o uploaded_file.desc]
    ELSE [val |-> strip(PageTexts(uploaded_file.pages, 1)), error |-> <<>>]

\* UIManager._process_uploaded_file: the text extracted (<<>> for None), what
\* the reader gave to st.error, and which of st.success / st.error ends it
_process_uploaded_file(uploaded_file) ==
    LET r == IF uploaded_file.type = "application/pdf"
             THEN FileProcessor_extract_text_from_pdf(uploaded_file)
             ELSE IF uploaded_file.type = "text/plain"
             THEN extract_text_from_txt(uploaded_file)
             ELSE [val |-> <<>>, error |-> <<>>]
    IN  [extracted_text |-> r.val, error |-> r.error,
         notice |-> IF r.val # <<>> THEN "document_processed"
                    ELSE "could_not_extract"]

\* render_file_upload_section: a file is given to the uploader, the text
\* area being empty
UploadFile ==
    /\ pc = "idle"
    /\ \E uploaded_file \in UploadedFiles :
        \E r \in {_process_uploaded_file(uploaded_file)} :
            /\ session' = IF r.extracted_text # <<>>
                          THEN [session EXCEPT
                                    !.extracted_text = r.extracted_text,
                                    !.current_text = r.extracted_text]
                          ELSE session
            /\ page' = [answer |-> IF r.extracted_text # <<>>
                                   THEN r.extracted_text ELSE r.error,
                        notice |-> r.notice]
    /\ pc' = "upload"
    /\ UNCHANGED <<event, modelOutcome, pdfOutcome, envelope, propagated, calls,
                   cleanIn, cleanOut, quizIn, quizOut, quizArg, quizRaised,
                   quizWarning, http>>

\* render_text_input_section: text is pasted
PasteText ==
    /\ pc = "idle"
    /\ \E manual_text \in DocTexts :
        session' = [session EXCEPT !.current_text = manual_text]
    /\ UNCHANGED <<pc, event, modelOutcome, pdfOutcome, envelope, propagated,
                   calls, cleanIn, cleanOut, quizIn, quizOut, quizArg,
                   quizRaised, quizWarning, http, page>>

\* _render_summary_generator: Create Summary is pressed
CreateSummary ==
    /\ pc = "idle"
    /\ session.current_text # <<>>
    /\ \E net \in NetOutcomes, mo \in AppModelOutcomes :
        \E summary \in {call_backend(S_summarize, session.current_text, <<>>,
                                     net, mo)} :
            /\ BackendCalled(summary, net, mo,
                             Payload(S_summarize, session.current_text, <<>>))
            /\ page' = [answer |-> summary.answer, notice |-> "study_guide"]
    /\ pc' = "summary"
    /\ UNCHANGED <<session, quizIn, quizOut, quizArg, quizRaised, quizWarning>>

\* _render_qa_chatbot: Get Answer is pressed
GetAnswer ==
    /\ pc = "idle"
    /\ session.current_text # <<>>
    /\ \E question \in QuestionTexts, net \in NetOutcomes,
          mo \in AppModelOutcomes :
        /\ question # <<>>
        /\ \E answer \in {call_backend(S_qa, session.current_text, question,
                                        net, mo)} :
            /\ BackendCalled(answer, net, mo,
                             Payload(S_qa, session.current_text, question))
            /\ page' = [answer |-> answer.answer, notice |-> "answer"]
    /\ pc' = "answer"
    /\ UNCHANGED <<session, quizIn, quizOut, quizArg, quizRaised, quizWarning>>

\* render_sidebar: Test API Connection is pressed
TestConnection ==
    /\ pc = "idle"
    /\ \E net \in NetOutcomes, mo \in AppModelOutcomes :
        \E result \in {call_backend(S_qa, TestText, TestQuestion, net, mo)} :
            /\ BackendCalled(result, net, mo,
                             Payload(S_qa, TestText, TestQuestion))
            /\ page' = [answer |-> result.answer, notice |-> "test_result"]
    /\ pc' = "test"
    /\ UNCHANGED <<session, quizIn, quizOut, quizArg, quizRaised, quizWarning>>

\* _render_quiz_features: Generate Quiz is pressed
GenerateQuiz ==
    /\ pc = "idle"
    /\ session.current_text # <<>>
    /\ \E net \in NetOutcomes, mo \in AppModelOutcomes :
        \E b \in {call_backend(S_quiz, session.current_text, <<>>, net, mo)} :
        \E parsed \in {parse_quiz_call(PyStr(b.answer))} :
            LET quiz == b.answer
            IN  /\ BackendCalled(b, net, mo,
                                 Payload(S_quiz, session.current_text, <<>>))
                /\ session' = [session EXCEPT !.quiz = quiz,
                                              !.quiz_questions = parsed.val]
                /\ quizArg' = PyStr(quiz)
                /\ quizIn' = quiz
                /\ quizOut' = parsed.val
                /\ quizRaised' = parsed.raised
                /\ quizWarning' = parsed.warning
                /\ page' = [answer |-> quiz, notice |-> "quiz_generated"]
    /\ pc' = "quiz"

\* a variant that sends the document text along
feedback_request_with_text(text, question_text, user_answer, correct_answer) ==
    [action |-> S_feedback, text |-> text,
     user_input |-> json_dumps_feedback(question_text, user_answer,
                                        correct_answer)]

\* the arguments Check Answer gives to call_backend
feedback_request(text, question_text, user_answer, correct_answer) ==
    [action |-> S_feedback, text |-> <<>>,
     user_input |-> json_dumps_feedback(question_text, user_answer,
                                        correct_answer)]

Letters == {<<"A">>, <<"B">>, <<"C">>, <<"D">>}

\* the question offered for checking: a key of the dropdown when the quiz
\* was parsed to questions, what the user typed otherwise
QuestionChoices ==
    IF session.quiz_questions # <<>>
    THEN {keys(session.quiz_questions)[i] : i \in DOMAIN session.quiz_questions}
    ELSE QuestionTexts

\* Check Answer is pressed and a field is empty or no letter: nothing is sent
CheckAnswerRefused ==
    /\ pc = "idle"
    /\ session.current_text # <<>>
    /\ session.quiz # <<>>
    /\ \E question_text \in QuestionChoices, typed_answer \in AnswerTexts,
          typed_correct \in AnswerTexts :
        LET user_answer == strip(upper(typed_answer))
            correct_answer == strip(upper(typed_correct))
        IN  /\ \/ question_text = <<>>
               \/ user_answer \notin Letters
               \/ correct_answer \notin Letters
            /\ page' = [answer |-> <<>>,
                        notice |->
                            IF \/ question_text = <<>>
                               \/ user_answer = <<>>
                               \/ correct_answer = <<>>
                            THEN "fill_in_all_fields"
                            ELSE IF user_answer \notin Letters
                            THEN "invalid_answer"
                            ELSE "invalid_correct_answer"]
    /\ pc' = "feedback"
    /\ UNCHANGED <<event, modelOutcome, pdfOutcome, envelope, propagated, calls,
                   cleanIn, cleanOut, quizIn, quizOut, quizArg, quizRaised,
                   quizWarning, session, http>>

\* Check Answer is pressed with all fields valid: feedback is asked for
CheckAnswer ==
    /\ pc = "idle"
    /\ session.current_text # <<>>
    /\ session.quiz # <<>>
    /\ \E question_text \in QuestionChoices, typed_answer \in AnswerTexts,
          typed_correct \in AnswerTexts, net \in NetOutcomes,
          mo \in AppModelOutcomes :
        \E user_answer \in {strip(upper(typed_answer))},
           correct_answer \in {strip(upper(typed_correct))} :
            /\ question_text # <<>>
            /\ user_answer \in Letters
            /\ correct_answer \in Letters
            /\ \E q \in {feedback_request(session.current_text, question_text,
                                           user_answer, correct_answer)} :
               \E feedback \in {call_backend(q.action, q.text, q.user_input,
                                             net, mo)} :
                    /\ BackendCalled(feedback, net, mo,
                                     Payload(q.action, q.text, q.user_input))
                    /\ page' = [answer |-> feedback.answer,
                                notice |-> IF user_answer = correct_answer
                                           THEN "correct" ELSE "incorrect"]
    /\ pc' = "feedback"
    /\ UNCHANGED <<session, quizIn, quizOut, quizArg, quizRaised, quizWarning>>

\* the page has been drawn; the script waits for the next button
Rerun ==
    /\ pc \in {"upload", "summary", "answer", "test", "quiz", "feedback"}
    /\ pc' = "idle"
    /\ event' = NoEvent
    /\ modelOutcome' = NoOutcome
    /\ pdfOutcome' = NoOutcome
    /\ envelope' = NoEnvelope
    /\ propagated' = FALSE
    /\ calls' = <<>>
    /\ cleanIn' = <<>>
    /\ cleanOut' = <<>>
    /\ quizIn' = <<>>
    /\ quizOut' = <<>>
    /\ quizArg' = PyNone
    /\ quizRaised' = FALSE
    /\ quizWarning' = <<>>
    /\ http' = NoRequest
    /\ page' = NoPage
    /\ UNCHANGED session

NextApp ==
    \/ UploadFile
    \/ PasteText
    \/ CreateSummary
    \/ GetAnswer
    \/ TestConnection
    \/ GenerateQuiz
    \/ CheckAnswerRefused
    \/ CheckAnswer
    \/ Rerun

SpecApp == Init /\ [][NextApp]_vars

(***************************************************************************)
(* What the properties below read off a state                              *)
(***************************************************************************)
Responded == pc = "responded"

\* the request dict, when the event decodes to one
HasFields == event.shape \in {"direct", "body"} /\ event.doc.kind = "object"

Field(key) == get(event.doc.fields, key, PyStr(<<>>))

\* a string field, given or defaulted, as the handlers read it
IsText(key) == Field(key).t = "str"

\* the action the router dispatches on
RoutedAction == lower(Field("action").s)

SupportedActions == {S_process_pdf, S_qa, S_summarize, S_quiz, S_feedback}

AIActions == {S_qa, S_summarize, S_quiz, S_feedback}

\* the text fields an AI action requires
RequiredFields(action) ==
    CASE action = S_qa -> {"text", "input"}
      [] action = S_feedback ->
            {"text", "question", "user_answer", "correct_answer"}
      [] OTHER -> {"text"}

ModelCalls == Cardinality({i \in DOMAIN calls : calls[i].target = "bedrock"})

ExtractionCalls ==
    Cardinality({i \in DOMAIN calls : calls[i].target = "pdf_processor"})

Succeeded == Responded /\ envelope.statusCode = 200 /\ envelope.body.success

Failed(status) ==
    /\ Responded
    /\ envelope.statusCode = status
    /\ ~envelope.body.success
    /\ "error" \in DOMAIN envelope.body

\* the model was called and did not deliver a completion text
ModelFailed == ModelCalls > 0 /\ modelOutcome.kind # "content"

\* the description of that failure: str(e) of the exception met in _invoke_model
ModelFailure ==
    CASE modelOutcome.kind \in {"transport", "badjson"} -> modelOutcome.desc
      [] modelOutcome.kind = "nochoices" -> ErrKeyChoices
      [] modelOutcome.kind = "emptychoices" -> ErrIndexRange

\* the extraction was called with a string and the decoder or reader failed
ExtractionFailed ==
    /\ ExtractionCalls > 0
    /\ calls[1].data.t = "str"
    /\ pdfOutcome.kind = "error"

\* the extraction was called with a string and no page had any text
ExtractionEmpty ==
    /\ ExtractionCalls > 0
    /\ calls[1].data.t = "str"
    /\ pdfOutcome.kind = "pages"
    /\ \A i \in DOMAIN pdfOutcome.pages : pdfOutcome.pages[i] = <<>>

(***************************************************************************)
(* C1: for every inbound event, whatever its action, payload or body, and  *)
(* whatever the collaborators answer, process_request returns an envelope  *)
(* with a status code and a success flag; nothing is raised to the caller. *)
(***************************************************************************)
C1_AlwaysEnvelope ==
    Responded =>
        /\ ~propagated
        /\ envelope.statusCode \in {200, 400, 500}
        /\ "success" \in DOMAIN envelope.body
        /\ envelope.body.success \in BOOLEAN

\* a request whose model call failed in transport was answered
C1_Witness ==
    /\ Responded
    /\ ModelCalls = 1
    /\ modelOutcome.kind = "transport"
    /\ ~propagated
    /\ envelope.statusCode = 500

(***************************************************************************)
(* C2: for qa, summarize, quiz and feedback, when any text field the       *)
(* action requires is empty or whitespace-only, the request ends in a 400  *)
(* failure envelope and the model is not invoked.                          *)
(***************************************************************************)
C2_BlankNeverReachesModel ==
    (/\ Responded
     /\ HasFields
     /\ IsText("action")
     /\ RoutedAction \in AIActions
     /\ \A k \in RequiredFields(RoutedAction) : IsText(k)
     /\ \E k \in RequiredFields(RoutedAction) : IsBlank(Field(k).s))
        => Failed(400) /\ ModelCalls = 0

(***************************************************************************)
(* C3: a feedback request whose question, user_answer and correct_answer   *)
(* are all non-empty, with a model that returns some text, yields success, *)
(* status 200 and that text as the response, after exactly one model       *)
(* invocation.  (Checked here for requests that also carry document text.) *)
(***************************************************************************)
C3_FeedbackSucceeds ==
    (/\ Responded
     /\ HasFields
     /\ IsText("action")
     /\ RoutedAction = S_feedback
     /\ IsText("text") /\ ~IsBlank(Field("text").s)
     /\ \A k \in {"question", "user_answer", "correct_answer"} :
            IsText(k) /\ Field(k).s # <<>>
     /\ modelOutcome.kind = "content")
        => /\ Succeeded
           /\ envelope.body.response = modelOutcome.content
           /\ ModelCalls = 1

(***************************************************************************)
(* C4: an action string outside the supported set (a missing action        *)
(* included) yields success=false, status 400 and an error message that    *)
(* lists every supported action; no collaborator is called.  The router    *)
(* compares the lower-cased action, so "QA" is a supported spelling.       *)
(***************************************************************************)
C4_InvalidAction ==
    (Responded /\ HasFields /\ IsText("action")
        /\ RoutedAction \notin SupportedActions)
        => /\ Failed(400)
           /\ \A a \in SupportedActions : Contains(envelope.body.error, a)
           /\ calls = <<>>

\* an unknown action was rejected
C4_Witness ==
    /\ Responded /\ HasFields /\ IsText("action")
    /\ RoutedAction = <<"d", "e", "l", "e", "t", "e">>
    /\ Failed(400)
    /\ calls = <<>>

(***************************************************************************)
(* C5, as stated: each request performs exactly one external call.         *)
(***************************************************************************)
C5_ExactlyOneCall == Responded => Len(calls) = 1

(***************************************************************************)
(* C5, amended: each request performs at most one external call, and every *)
(* success envelope is preceded by exactly one: the extraction for         *)
(* process_pdf, a model invocation for the AI actions.                     *)
(***************************************************************************)
C5_AtMostOneCall ==
    Responded =>
        /\ Len(calls) <= 1
        /\ Succeeded =>
            /\ Len(calls) = 1
            /\ envelope.body.action = S_process_pdf => ExtractionCalls = 1
            /\ envelope.body.action # S_process_pdf => ModelCalls = 1

\* a summary was delivered after one model call
C5_Witness ==
    /\ Succeeded
    /\ envelope.body.action = S_summarize
    /\ ModelCalls = 1
    /\ ExtractionCalls = 0

(***************************************************************************)
(* C6: when the model invocation or the document extraction fails, the     *)
(* envelope has success=false and status 500, its error message contains   *)
(* the collaborator's description of the failure, and it carries no        *)
(* response text.                                                          *)
(***************************************************************************)
C6_CollaboratorFailure ==
    /\ (Responded /\ ModelFailed) =>
            /\ Failed(500)
            /\ Contains(envelope.body.error, ModelFailure)
            /\ "response" \notin DOMAIN envelope.body
    /\ (Responded /\ ExtractionFailed) =>
            /\ Failed(500)
            /\ Contains(envelope.body.error, pdfOutcome.desc)
            /\ "response" \notin DOMAIN envelope.body
    /\ (Responded /\ ExtractionEmpty) =>
            /\ Failed(500)
            /\ Contains(envelope.body.error, MsgNoExtractable)
            /\ "response" \notin DOMAIN envelope.body

\* a completion without 'choices' was reported as a 500
C6_Witness ==
    /\ Responded
    /\ ModelCalls = 1
    /\ modelOutcome.kind = "nochoices"
    /\ Failed(500)
    /\ Contains(envelope.body.error, ErrKeyChoices)

(***************************************************************************)
(* C7: the document text embedded in the prompt sent to the model is the   *)
(* first 5000 characters of the supplied text when that is longer, and the *)
(* supplied text itself otherwise; truncating twice is truncating once.    *)
(***************************************************************************)
\* the prompt of the one model call
SentPrompt == calls[1].messages[1].content

\* the first n characters of s, n at most Len(s)
Prefix(s, n) == [i \in 1..n |-> s[i]]

\* the prompt of an action around a document text
PromptAround(action, doc) ==
    CASE action = S_qa ->
            QAPromptHead \o doc \o QAPromptMid \o str(Field("input"))
                \o QAPromptTail
      [] action = S_summarize -> SummaryPromptHead \o doc \o SummaryPromptTail
      [] action = S_quiz -> QuizPromptHead \o doc \o QuizPromptTail

C7_PromptEmbedsTruncatedText ==
    (Responded /\ ModelCalls = 1) =>
        LET supplied == Field("text").s
            embedded == IF Len(supplied) > TextLimit
                        THEN Prefix(supplied, TextLimit)
                        ELSE supplied
        IN  /\ RoutedAction \in {S_qa, S_summarize, S_quiz}
            /\ SentPrompt = PromptAround(RoutedAction, embedded)
            /\ TruncateText(TruncateText(supplied)) = TruncateText(supplied)
            /\ TruncateText(supplied) = embedded

\* a prompt was sent for a document longer than the limit
C7_Witness ==
    /\ Responded
    /\ ModelCalls = 1
    /\ Len(Field("text").s) > TextLimit
    /\ Len(SentPrompt) < Len(Field("text").s) + Len(QuizPromptHead)
                            + Len(QuizPromptTail)

(***************************************************************************)
(* C8: clean_response is idempotent: clean(clean(x)) = clean(x) for every  *)
(* text x, and clean("") = "".                                             *)
(***************************************************************************)
C8_CleanIdempotent ==
    /\ clean_response(<<>>) = <<>>
    /\ pc = "cleaned" => clean_response(cleanOut) = cleanOut

(***************************************************************************)
(* C9: the output of clean_response contains no <thinking>...</thinking>   *)
(* or <reasoning>...</reasoning> block, in any letter case.                *)
(***************************************************************************)
\* s holds an opening tag with a closing tag somewhere after it
HasBlock(s, open, close) ==
    \E i \in 1..Len(s) :
        /\ MatchesAt(s, i, open)
        /\ \E j \in (i + Len(open))..Len(s) : MatchesAt(s, j, close)

C9_NoReasoningBlock ==
    pc = "cleaned" =>
        /\ ~HasBlock(cleanOut, ThinkingOpen, ThinkingClose)
        /\ ~HasBlock(cleanOut, ReasoningOpen, ReasoningClose)

(***************************************************************************)
(* C10: on a well-formed block of three numbered questions (lines starting *)
(* 1., 2., 3., each followed by its option lines) the parser returns       *)
(* exactly the keys Q1, Q2, Q3 in order, each value being that question's  *)
(* own line joined with its following non-empty lines by single spaces.    *)
(***************************************************************************)
\* the blocks whose question line is numbered n and has option lines
NumberedBlocks(n) ==
    {<<q>> \o o : q \in {l \in QuestionLines : startswith(l, str_int(n) \o <<".">>)},
                  o \in OptionLines \ {<<>>}}

RECURSIVE JoinSpaces(_)
JoinSpaces(lines) ==
    IF lines = <<>> THEN <<>>
    ELSE IF Len(lines) = 1 THEN lines[1]
    ELSE lines[1] \o <<" ">> \o JoinSpaces(Tail(lines))

\* a block's non-empty lines, stripped, joined by single spaces
BlockText(block) ==
    JoinSpaces(SelectSeq([i \in DOMAIN block |-> strip(block[i])],
                         LAMBDA l : l # <<>>))

C10_ThreeQuestions ==
    pc = "parsed" =>
        \A b1 \in NumberedBlocks(1), b2 \in NumberedBlocks(2),
           b3 \in NumberedBlocks(3) :
            quizIn = JoinLines(b1 \o b2 \o b3) =>
                quizOut = << <<QuestionKey(1), BlockText(b1)>>,
                             <<QuestionKey(2), BlockText(b2)>>,
                             <<QuestionKey(3), BlockText(b3)>> >>

(***************************************************************************)
(* C11: the quiz parser is total: for every input it returns a map and     *)
(* never raises; when no line of the input, read as the parser reads it    *)
(* (stripped), starts with the question number 1 ("1." or "1 "), the map   *)
(* is empty.                                                               *)
(***************************************************************************)
\* d is a dict: no key twice
IsMap(d) == \A i \in DOMAIN d, j \in DOMAIN d : d[i][1] = d[j][1] => i = j

\* some line of the text starts with the first question number
HasFirstQuestion(text) ==
    LET lines == split_lines(text)
    IN  \E i \in DOMAIN lines : StartsQuestion(strip(lines[i]), 1)

C11_ParserTotal ==
    pc = "parsed" =>
        /\ ~quizRaised
        /\ IsMap(quizOut)
        /\ (quizArg.t # "str" \/ ~HasFirstQuestion(quizArg.s)) => quizOut = <<>>
        /\ (quizArg.t = "str" /\ HasFirstQuestion(quizArg.s)) => quizOut # <<>>

\* a text with lines, none of them numbered 1, was parsed to the empty map
C11_Witness ==
    /\ pc = "parsed"
    /\ quizArg.t = "str"
    /\ Len(split_lines(quizArg.s)) > 1
    /\ ~HasFirstQuestion(quizArg.s)
    /\ quizOut = <<>>

\* a value that is no text was given and the parser returned all the same
C11_WitnessNonText ==
    /\ pc = "parsed"
    /\ quizArg.t # "str"
    /\ ~quizRaised
    /\ quizWarning # <<>>

(***************************************************************************)
(* C12: a summarize request with non-blank document text, answered by a    *)
(* completion of the form reasoning block, filler phrase, remaining text,  *)
(* comes back as a success envelope for the action "summarize", and what   *)
(* call_backend returns is the remaining text with tags and filler         *)
(* stripped, whitespace collapsed and the first letter capitalized.        *)
(***************************************************************************)
\* the request reached the backend and its answer reached the client
Answered == http.kind = "answered"

C12_SummarizePipeline ==
    \A b \in SummaryBlocks, f \in SummaryFillers, r \in SummaryRests :
        (/\ pc = "summary"
         /\ Answered
         /\ ~IsBlank(session.current_text)
         /\ modelOutcome.kind = "content"
         /\ modelOutcome.content = b \o f \o r.text)
            => /\ envelope.statusCode = 200
               /\ envelope.body.success
               /\ envelope.body.action = S_summarize
               /\ page.answer = r.cleaned

\* a summary came back whose block spans two lines and whose remaining text
\* holds markup and runs of whitespace
C12_Witness ==
    /\ pc = "summary"
    /\ Answered
    /\ http.gateway = "proxy"
    /\ modelOutcome.content = BlockTwoLines \o FillerBasedOn \o RestMarkup
    /\ cleanIn = modelOutcome.content
    /\ page.answer = RestMarkupCleaned

(***************************************************************************)
(* C13: for a feedback request with non-blank document text in which some  *)
(* of question, user_answer, correct_answer are empty, the 400 failure     *)
(* message names exactly the fields that are missing, and not the fields   *)
(* that were supplied.                                                     *)
(***************************************************************************)
FeedbackFields == {"question", "user_answer", "correct_answer"}

\* the name of a field as the message would spell it
FieldName(k) ==
    CASE k = "question" -> <<"q", "u", "e", "s", "t", "i", "o", "n">>
      [] k = "user_answer" ->
            <<"u", "s", "e", "r", "_", "a", "n", "s", "w", "e", "r">>
      [] k = "correct_answer" ->
            <<"c", "o", "r", "r", "e", "c", "t", "_", "a", "n", "s", "w", "e", "r">>

C13_NamesMissingFields ==
    (/\ Responded
     /\ HasFields
     /\ IsText("action")
     /\ RoutedAction = S_feedback
     /\ IsText("text") /\ ~IsBlank(Field("text").s)
     /\ \A k \in FeedbackFields : IsText(k)
     /\ \E k \in FeedbackFields : Field(k).s = <<>>)
        => /\ Failed(400)
           /\ \A k \in FeedbackFields :
                Contains(envelope.body.error, FieldName(k)) <=> Field(k).s = <<>>

(***************************************************************************)
(* C14: in the quiz display flow (call_backend("quiz"), clean_response,    *)
(* _parse_quiz_questions) a completion in exactly the format the quiz      *)
(* prompt asks for (questions prefixed Q1., Q2., Q3., each followed by     *)
(* option lines A) to D)) gives a question map with the keys Q1, Q2, Q3.   *)
(***************************************************************************)
C14_PromptedQuizParsed ==
    (/\ pc = "quiz"
     /\ Answered
     /\ ~IsBlank(session.current_text)
     /\ modelOutcome.kind = "content"
     /\ modelOutcome.content = QuizAsPrompted)
        => /\ keys(quizOut) = <<QuestionKey(1), QuestionKey(2), QuestionKey(3)>>
           /\ session.quiz_questions = quizOut

(***************************************************************************)
(* C15: every feedback request that Check Answer sends through             *)
(* call_backend carries an empty text and packs question, user_answer and  *)
(* correct_answer inside the input string, so the backend rejects it with  *)
(* a 400 "No text content provided" envelope and never invokes the model.  *)
(***************************************************************************)
\* Check Answer sent a request
FeedbackSent == pc = "feedback" /\ http.kind # "none"

\* the request got to lambda_handler
ReachedBackend == http.kind \in {"answered", "timeout"}

C15_ClientFeedbackRejected ==
    FeedbackSent =>
        /\ DOMAIN http.payload = {"action", "text", "input"}
        /\ http.payload["action"] = PyStr(S_feedback)
        /\ http.payload["text"] = PyStr(<<>>)
        /\ \E q \in QuestionChoices, u \in Letters, c \in Letters :
                http.payload["input"] = PyStr(json_dumps_feedback(q, u, c))
        /\ ModelCalls = 0
        /\ ReachedBackend =>
                /\ Field("text") = PyStr(<<>>)
                /\ envelope.statusCode = 400
                /\ ~envelope.body.success
                /\ envelope.body.error = MsgNoText

\* the answer of a question picked from the dropdown was sent for checking
\* and the client got the rejection back
C15_Witness ==
    /\ pc = "feedback"
    /\ Answered
    /\ http.gateway = "proxy"
    /\ ~IsBlank(session.current_text)
    /\ session.quiz_questions # <<>>
    /\ envelope.statusCode = 400
    /\ envelope.body.error = MsgNoText
    /\ startswith(page.answer, MsgApiErrorHead \o <<"4", "0", "0">>)

====
